---------------------------- MODULE Spec2Model ----------------------------
(***************************************************************************)
(* Model of the Prism deep-research agent: the hierarchical memory ledger  *)
(* (core/memory.py), the conflict-resolution pipeline                      *)
(* (core/acts/resolve_conflict.py) and the turn orchestrator               *)
(* (core/agent_with_memory_content_monitor.py).                            *)
(*                                                                         *)
(* Conventions.                                                            *)
(*  - Floats in [0,1] are integers in percent (0.85 is 85).                *)
(*  - An Optional value is a sequence: <<>> is None, <<v>> is the value v. *)
(*  - Claim is a mutable dataclass and the ledger stores references to     *)
(*    Claim objects; heap[r] is the object behind reference r, and a       *)
(*    turn's claims_active is a sequence of references.                    *)
(*  - A dict is a function whose DOMAIN is its key set; an ordered dict of *)
(*    turns is a sequence of turn records in insertion order.              *)
(***************************************************************************)
EXTENDS Integers, Sequences, FiniteSets, TLC

VARIABLES
    memory,   \* MemoryFacade: the ledger's dictionaries
    heap,     \* the Claim objects referenced from the ledger
    call,     \* the last ledger API call made by a caller, with what it returned
    ops,      \* the number of add/merge/apply calls made by the caller
    pc,       \* run_turn: the point of control
    frame     \* run_turn: its parameters and local variables

vars == <<memory, heap, call, ops, pc, frame>>

ledgerVars == <<memory, heap>>

agentVars == <<pc, frame>>

-----------------------------------------------------------------------------
(* Python helpers *)

None == <<>>

Some(v) == <<v>>

\* Python truthiness of an Optional[float]: None and 0.0 are falsy
TruthyNum(opt) == opt # None /\ opt[1] # 0

\* Python `opt or d` for an Optional[float]
OrElse(opt, d) == IF TruthyNum(opt) THEN opt[1] ELSE d

\* Python truthiness of an Optional[str]: None and "" are falsy
TruthyStr(opt) == opt # None /\ opt[1] # ""

Max(a, b) == IF a >= b THEN a ELSE b

Range(s) == {s[i] : i \in 1..Len(s)}

\* dict lookup with a default (dict.get(k, d))
Get(f, k, d) == IF k \in DOMAIN f THEN f[k] ELSE d

\* dict assignment f[k] = v
Put(f, k, v) == [x \in (DOMAIN f) \cup {k} |-> IF x = k THEN v ELSE f[x]]

EmptyDict == [x \in {} |-> 0]

-----------------------------------------------------------------------------
(* core/ids.py *)

\* generate_fingerprint: md5 of "url|text", cut to 16 hex digits.  The digest
\* is taken to be injective on the content strings of the model; what is kept
\* is the content string the digest is computed from.
generate_fingerprint(text, url) == url \o "|" \o text


-----------------------------------------------------------------------------
(* core/models.py: the records of the domain model *)

\* Source + EvidenceItem
EvidenceItem(id, url, domain, type, time, text) ==
    [id |-> id, source |-> [url |-> url, domain |-> domain, type |-> type],
     time |-> time, text |-> text]

\* Claim: support_ids and aspects are lists used as sets (every write goes
\* through list(set(...)), every read is a membership test)
Claim(id, text, support_ids, aspects, confidence, stance, salience) ==
    [id |-> id, text |-> text, support_ids |-> support_ids, aspects |-> aspects,
     confidence |-> confidence, stance |-> stance, salience |-> salience]

\* PlanPatch with the step it is filed under
PlanPatch(step_id, add_evidence_ids, merge_claims_, set_evaluate_) ==
    [step_id |-> step_id,
     patch |-> [add_evidence_ids |-> add_evidence_ids,
                merge_claims |-> merge_claims_,
                set_evaluate |-> set_evaluate_]]

-----------------------------------------------------------------------------
(* core/memory.py: MemoryFacade *)

Sessions == {"s1", "s2"}

\* MemoryFacade.__init__
MemoryFacade ==
    [session_configs  |-> EmptyDict,
     session_archives |-> EmptyDict,
     turn_data        |-> [s \in Sessions |-> <<>>],
     plan_data        |-> EmptyDict,
     action_logs      |-> EmptyDict,
     evidence_index   |-> EmptyDict]

TurnIdsOf(mem, sid) ==
    {mem.turn_data[sid][i].turn_id : i \in 1..Len(mem.turn_data[sid])}

TurnIdx(mem, sid, tid) ==
    CHOOSE i \in 1..Len(mem.turn_data[sid]) : mem.turn_data[sid][i].turn_id = tid

TurnOf(mem, sid, tid) == mem.turn_data[sid][TurnIdx(mem, sid, tid)]

SetTurn(mem, sid, tid, t) ==
    [mem EXCEPT !.turn_data[sid][TurnIdx(mem, sid, tid)] = t]

\* the dict a turn starts from (begin_turn, lines 38-45)
NewTurn(turn_id, user_query) ==
    [turn_id |-> turn_id, user_query |-> user_query, plan_list |-> <<>>,
     current_step_id |-> None, evidences_active |-> <<>>,
     claims_active |-> <<>>, last_evaluate |-> None]

\* begin_turn, line 59: the test a prior claim passes to be inherited
InheritQualifiesLowBar(claim) ==
    claim.confidence >= 60 /\ OrElse(claim.salience, 50) >= 60

InheritQualifies(claim) ==
    claim.confidence >= 80 /\ OrElse(claim.salience, 50) >= 60

\* begin_turn, line 54: previous_turns[-2:]
LastTurns(previous_turns) ==
    SubSeq(previous_turns,
           IF Len(previous_turns) > 2 THEN Len(previous_turns) - 1 ELSE 1,
           Len(previous_turns))

\* begin_turn, lines 54-68: the loop over the previous turns; the claims
\* collected so far select the evidence of the turn at hand
RECURSIVE InheritFrom(_, _, _, _)
InheritFrom(hp, prev, claims, evidences) ==
    IF prev = <<>> THEN [claims |-> claims, evidences |-> evidences]
    ELSE LET t  == Head(prev)
             cs == claims \o SelectSeq(t.claims_active,
                                       LAMBDA r : InheritQualifies(hp[r]))
             es == evidences \o
                   SelectSeq(t.evidences_active,
                             LAMBDA e : \E i \in 1..Len(cs) :
                                           e.id \in hp[cs[i]].support_ids)
         IN InheritFrom(hp, Tail(prev), cs, es)

begin_turn(mem, hp, session_id, turn_id, user_query) ==
    LET turns == mem.turn_data[session_id]
        fresh == NewTurn(turn_id, user_query)
        base  == IF turn_id \in TurnIdsOf(mem, session_id)
                 THEN [turns EXCEPT ![TurnIdx(mem, session_id, turn_id)] = fresh]
                 ELSE Append(turns, fresh)
        previous_turns == SelectSeq(base, LAMBDA t : t.turn_id # turn_id)
        inh   == InheritFrom(hp, LastTurns(previous_turns), <<>>, <<>>)
        mem1  == [mem EXCEPT !.turn_data[session_id] = base]
    IN SetTurn(mem1, session_id, turn_id,
               [fresh EXCEPT !.evidences_active = inh.evidences,
                             !.claims_active = inh.claims])

\* begin_plan
begin_plan(mem, session_id, turn_id, plan_id, base_evidence_ids, base_claim_ids) ==
    [mem EXCEPT !.plan_data =
        Put(@, <<session_id, turn_id, plan_id>>,
            [plan_start_snapshot |-> [evidence_base_ids |-> base_evidence_ids,
                                      claim_base_ids |-> base_claim_ids],
             plan_patches |-> <<>>,
             plan_gate |-> EmptyDict])]

\* record_action
record_action(mem, session_id, turn_id, log) ==
    [mem EXCEPT !.action_logs =
        Put(@, <<session_id, turn_id>>,
            Append(Get(@, <<session_id, turn_id>>, <<>>), log))]

\* the plan-patch tail shared by add_evidences (111-118), merge_claims
\* (147-155) and set_evaluate (164-172): a patch is filed only for a plan
\* that was begun and a current step id that is set
AppendPatch(mem, session_id, turn_id, plan_id, add_ids, merged, evaluate_) ==
    LET key     == <<session_id, turn_id, plan_id>>
        step_id == TurnOf(mem, session_id, turn_id).current_step_id
    IN IF key \in DOMAIN mem.plan_data /\ TruthyStr(step_id)
       THEN [mem EXCEPT !.plan_data[key].plan_patches =
                Append(@, PlanPatch(step_id[1], add_ids, merged, evaluate_))]
       ELSE mem

\* add_evidences, line 103: the key an item is deduplicated on
DedupKeyById(evidence) == evidence.id

DedupKey(evidence) == generate_fingerprint(evidence.text, evidence.source.url)

\* add_evidences, lines 100-108
RECURSIVE AdmitLoop(_, _, _, _)
AdmitLoop(evidences, index, active, new_ids) ==
    IF evidences = <<>>
    THEN [index |-> index, active |-> active, new_ids |-> new_ids]
    ELSE LET evidence    == Head(evidences)
             fingerprint == DedupKey(evidence)
         IN IF fingerprint \notin DOMAIN index
            THEN AdmitLoop(Tail(evidences), Put(index, fingerprint, evidence),
                           Append(active, evidence), Append(new_ids, evidence.id))
            ELSE AdmitLoop(Tail(evidences), index, active, new_ids)

\* add_evidences: the ledger after the call and the returned new_ids
add_evidences(mem, session_id, turn_id, plan_id, evidences) ==
    LET turn == TurnOf(mem, session_id, turn_id)
        r    == AdmitLoop(evidences, mem.evidence_index, turn.evidences_active, <<>>)
        mem1 == SetTurn([mem EXCEPT !.evidence_index = r.index],
                        session_id, turn_id,
                        [turn EXCEPT !.evidences_active = r.active])
    IN [memory  |-> IF r.new_ids # <<>>
                    THEN AppendPatch(mem1, session_id, turn_id, plan_id,
                                     r.new_ids, <<>>, None)
                    ELSE mem1,
        new_ids |-> r.new_ids]

\* merge_claims, line 126: existing_claims = {c.id: c for c in claims_active};
\* a later entry with the same id replaces an earlier one
ExistingClaims(hp, active) ==
    [id \in {hp[active[i]].id : i \in 1..Len(active)} |->
        active[CHOOSE i \in 1..Len(active) :
                  /\ hp[active[i]].id = id
                  /\ \A j \in 1..Len(active) : hp[active[j]].id = id => j <= i]]

\* merge_claims, lines 132-140: the existing object after one incoming claim
MergeIntoTakingStance(existing, new_claim) ==
    [existing EXCEPT
        !.support_ids = existing.support_ids \cup new_claim.support_ids,
        !.confidence  = Max(existing.confidence, new_claim.confidence),
        !.stance      = new_claim.stance,
        !.salience    = IF TruthyNum(new_claim.salience)
                        THEN Some(Max(OrElse(existing.salience, 0),
                                      new_claim.salience[1]))
                        ELSE @,
        !.aspects     = IF new_claim.aspects # {}
                        THEN existing.aspects \cup new_claim.aspects
                        ELSE @]

MergeInto(existing, new_claim) ==
    [existing EXCEPT
        !.support_ids = existing.support_ids \cup new_claim.support_ids,
        !.confidence  = Max(existing.confidence, new_claim.confidence),
        !.stance      = IF TruthyStr(new_claim.stance) THEN new_claim.stance ELSE @,
        !.salience    = IF TruthyNum(new_claim.salience)
                        THEN Some(Max(OrElse(existing.salience, 0),
                                      new_claim.salience[1]))
                        ELSE @,
        !.aspects     = IF new_claim.aspects # {}
                        THEN existing.aspects \cup new_claim.aspects
                        ELSE @]

\* merge_claims, lines 128-144.  An incoming claim with an unseen id becomes
\* an entry of the active list: its object goes to the heap and the patch
\* refers to it.  An incoming claim with a seen id is merged into the existing
\* object; only the patch keeps that incoming object, so the patch holds its
\* content (ref 0).
RECURSIVE MergeLoop(_, _, _, _, _)
MergeLoop(claims, existing_claims, hp, active, merged) ==
    IF claims = <<>>
    THEN [heap |-> hp, active |-> active, merged |-> merged]
    ELSE LET new_claim == Head(claims)
         IN IF new_claim.id \in DOMAIN existing_claims
            THEN LET r == existing_claims[new_claim.id]
                 IN MergeLoop(Tail(claims), existing_claims,
                              [hp EXCEPT ![r] = MergeInto(hp[r], new_claim)],
                              active,
                              Append(merged, [ref |-> 0, val |-> Some(new_claim)]))
            ELSE LET r == Len(hp) + 1
                 IN MergeLoop(Tail(claims), existing_claims,
                              Append(hp, new_claim),
                              Append(active, r),
                              Append(merged, [ref |-> r, val |-> None]))

\* merge_claims: the ledger and the heap after the call
merge_claims(mem, hp, session_id, turn_id, plan_id, claims) ==
    LET turn == TurnOf(mem, session_id, turn_id)
        r    == MergeLoop(claims, ExistingClaims(hp, turn.claims_active), hp,
                          turn.claims_active, <<>>)
        mem1 == SetTurn(mem, session_id, turn_id,
                        [turn EXCEPT !.claims_active = r.active])
    IN [memory |-> IF r.merged # <<>>
                   THEN AppendPatch(mem1, session_id, turn_id, plan_id,
                                    <<>>, r.merged, None)
                   ELSE mem1,
        heap   |-> r.heap]

\* set_evaluate
set_evaluate(mem, session_id, turn_id, plan_id, snapshot) ==
    LET turn == TurnOf(mem, session_id, turn_id)
        mem1 == SetTurn(mem, session_id, turn_id,
                        [turn EXCEPT !.last_evaluate = Some(snapshot)])
        key  == <<session_id, turn_id, plan_id>>
        mem2 == AppendPatch(mem1, session_id, turn_id, plan_id,
                            <<>>, <<>>, Some(snapshot))
    IN IF key \in DOMAIN mem.plan_data /\ TruthyStr(turn.current_step_id)
       THEN [mem2 EXCEPT !.plan_data[key].plan_gate =
                Put(@, turn.current_step_id[1], snapshot.passed)]
       ELSE mem1

\* set_session_config
set_session_config(mem, session_id, cfg) ==
    [mem EXCEPT !.session_configs = Put(@, session_id, cfg)]

\* _claim_to_dict: the stance key is present for a truthy stance only
claim_to_dict(claim) ==
    [claim EXCEPT !.stance = IF TruthyStr(claim.stance) THEN @ ELSE None]

\* get_claims: copies of the active claims, in list order
get_claims(mem, hp, session_id, turn_id) ==
    IF turn_id \in TurnIdsOf(mem, session_id)
    THEN LET active == TurnOf(mem, session_id, turn_id).claims_active
         IN [i \in 1..Len(active) |-> claim_to_dict(hp[active[i]])]
    ELSE <<>>

\* get_evidences
get_evidences(mem, session_id, turn_id) ==
    IF turn_id \in TurnIdsOf(mem, session_id)
    THEN TurnOf(mem, session_id, turn_id).evidences_active
    ELSE <<>>

\* get_evidence_url_map: {e.id: e.source.url}; of two items with one id the
\* later one gives the url
get_evidence_url_map(mem, session_id, turn_id) ==
    LET evidences == get_evidences(mem, session_id, turn_id)
        Last(id)  == CHOOSE i \in 1..Len(evidences) :
                        /\ evidences[i].id = id
                        /\ \A j \in (i + 1)..Len(evidences) : evidences[j].id # id
    IN [id \in {evidences[i].id : i \in 1..Len(evidences)} |->
           evidences[Last(id)].source.url]

\* apply_claim_updates, lines 218-226: one update applied to the object it
\* names.  An update is a dict: a key that may be absent is an Optional.
ApplyOne(claim_obj, update) ==
    IF update.action = "upheld"
    THEN [claim_obj EXCEPT !.confidence = update.new_confidence[1]]
    ELSE IF update.action = "revised"
    THEN [claim_obj EXCEPT
            !.text = update.new_text[1],
            !.confidence = update.new_confidence[1],
            !.support_ids = IF update.evidence_ids # None
                            THEN @ \cup update.evidence_ids[1] ELSE @]
    ELSE IF update.action = "retracted"
    THEN [claim_obj EXCEPT !.confidence = 0]
    ELSE claim_obj

\* the subscripts update["new_confidence"] and update["new_text"] raise
\* KeyError when the key is absent
ApplyRaises(update) ==
    \/ update.action \in {"upheld", "revised"} /\ update.new_confidence = None
    \/ update.action = "revised" /\ update.new_text = None

\* apply_claim_updates, lines 209-226
RECURSIVE ApplyLoop(_, _, _)
ApplyLoop(updated_claims, claims_map, hp) ==
    IF updated_claims = <<>> THEN [heap |-> hp, raised |-> FALSE]
    ELSE LET update == Head(updated_claims)
         IN IF update.claim_id = "" \/ update.claim_id \notin DOMAIN claims_map
            THEN ApplyLoop(Tail(updated_claims), claims_map, hp)
            ELSE IF ApplyRaises(update)
            THEN [heap |-> hp, raised |-> TRUE]
            ELSE LET r == claims_map[update.claim_id]
                 IN ApplyLoop(Tail(updated_claims), claims_map,
                              [hp EXCEPT ![r] = ApplyOne(hp[r], update)])

\* apply_claim_updates, line 229: the entries kept in the active list
Keep(claim) == claim.confidence > 0

\* apply_claim_updates: the ledger and the heap after the call; when an
\* update raises, the objects updated so far stay updated and the active list
\* is not filtered
apply_claim_updates(mem, hp, session_id, turn_id, updated_claims) ==
    IF turn_id \notin TurnIdsOf(mem, session_id)
    THEN [memory |-> mem, heap |-> hp, raised |-> FALSE]
    ELSE LET turn == TurnOf(mem, session_id, turn_id)
             active_claims == turn.claims_active
             r == ApplyLoop(updated_claims, ExistingClaims(hp, active_claims), hp)
         IN IF r.raised
            THEN [memory |-> mem, heap |-> r.heap, raised |-> TRUE]
            ELSE [memory |-> SetTurn(mem, session_id, turn_id,
                                [turn EXCEPT !.claims_active =
                                    SelectSeq(active_claims,
                                              LAMBDA c : Keep(r.heap[c]))]),
                  heap |-> r.heap, raised |-> FALSE]

-----------------------------------------------------------------------------
(* The ledger driven through its API by a caller.  As run_turn does (it makes *)
(* a fresh turn id and passes it to every ledger call of the turn), the      *)
(* caller begins turns under fresh ids and works on the newest turn of a     *)
(* session; several sessions share the ledger.                               *)

MaxTurns == 3

MaxOps == 2

\* generate_id("turn"): the k-th id made is TurnName[k]
TurnName == <<"t1", "t2", "t3", "t4", "t5", "t6">>

TurnCount(mem) == Len(mem.turn_data["s1"]) + Len(mem.turn_data["s2"])

NewestTurn(mem, sid) == mem.turn_data[sid][Len(mem.turn_data[sid])].turn_id

\* a plan id of a plan that was never begun
NoPlan == "p0"

\* batches of one or two items
Batches(S) == {<<a>> : a \in S} \cup {<<a, b>> : a \in S, b \in S}

\* batches of one item, or of two items that name the same id
BatchesById(S, IdOf(_)) ==
    {<<a>> : a \in S} \cup {p \in S \X S : IdOf(p[1]) = IdOf(p[2])}

\* e1 and e2 carry the same (url, text) under two ids (one retrieved by RAG,
\* one by WEB); e3 is other content under the id of e2
EvidenceInputs ==
    {EvidenceItem("RAG_1", "u1", "kb.local", "internal", "2024-12", "t1"),
     EvidenceItem("WEB_1", "u1", "kb.local", "media", "2024-12", "t1"),
     EvidenceItem("WEB_1", "u2", "example.com", "media", "2025-01", "t1")}

ClaimInputs ==
    {Claim("c1", "x1", {"RAG_1"}, {"a1"}, 85, None, Some(70)),
     Claim("c1", "x2", {"WEB_1"}, {}, 60, None, Some(90)),
     Claim("c2", "x3", {}, {}, 85, None, None),
     Claim("c2", "x4", {"RAG_1"}, {}, 0, None, Some(70))}

Update(claim_id, action, new_confidence, new_text, evidence_ids) ==
    [claim_id |-> claim_id, action |-> action, new_confidence |-> new_confidence,
     new_text |-> new_text, evidence_ids |-> evidence_ids]

UpdateInputs ==
    {Update("c1", "retracted", Some(0), None, None),
     Update("c1", "upheld", Some(60), None, None),
     Update("c2", "revised", Some(85), Some("x5"), Some({"WEB_1"}))}

NoCall ==
    [op |-> "none", session_id |-> "", turn_id |-> "", evidences |-> <<>>,
     claims |-> <<>>, updates |-> <<>>, new_ids |-> <<>>, raised |-> FALSE]

\* the locals of run_turn before it is called
NoFrame ==
    [session_id |-> "", turn_id |-> "", plan_id |-> "", max_loops |-> 0,
     env |-> "", loops |-> 0, step_loop_count |-> EmptyDict, step |-> None,
     claims_active |-> <<>>, evaluate_result |-> None, source |-> "",
     query |-> None, queue |-> <<>>, evidences |-> <<>>, resolution |-> None,
     result |-> None, fault |-> None, malformed |-> {},
     adjudication |-> "", evaluator_calls |-> 0, decider_calls |-> 0,
     decision |-> None, decider_llm_calls |-> 0,
     asked |-> "", user_query |-> "", output_query |-> None,
     planner_calls |-> 0, output_calls |-> 0, monitor |-> None,
     config_arg |-> None, config_before |-> None, config |-> None,
     new_evidences |-> <<>>, working_set |-> None,
     updated_claims_list |-> <<>>, searches |-> [RAG |-> 0, WEB |-> 0]]

AgentIdle == pc = "idle" /\ frame = NoFrame

InitLedger ==
    /\ memory = MemoryFacade
    /\ heap = <<>>
    /\ call = NoCall
    /\ ops = 0
    /\ AgentIdle

BeginTurn(sid) ==
    /\ TurnCount(memory) < MaxTurns
    /\ LET tid == TurnName[TurnCount(memory) + 1]
       IN /\ memory' = begin_turn(memory, heap, sid, tid, "q")
          /\ call' = [NoCall EXCEPT !.op = "begin_turn", !.session_id = sid,
                                    !.turn_id = tid]
    /\ UNCHANGED <<heap, ops, agentVars>>

AddEvidences(sid, evidences) ==
    /\ ops < MaxOps
    /\ memory.turn_data[sid] # <<>>
    /\ LET tid == NewestTurn(memory, sid)
           r   == add_evidences(memory, sid, tid, NoPlan, evidences)
       IN /\ memory' = r.memory
          /\ call' = [NoCall EXCEPT !.op = "add_evidences", !.session_id = sid,
                                    !.turn_id = tid, !.evidences = evidences,
                                    !.new_ids = r.new_ids]
    /\ ops' = ops + 1
    /\ UNCHANGED <<heap, agentVars>>

MergeClaims(sid, claims) ==
    /\ ops < MaxOps
    /\ memory.turn_data[sid] # <<>>
    /\ LET tid == NewestTurn(memory, sid)
           r   == merge_claims(memory, heap, sid, tid, NoPlan, claims)
       IN /\ memory' = r.memory
          /\ heap' = r.heap
          /\ call' = [NoCall EXCEPT !.op = "merge_claims", !.session_id = sid,
                                    !.turn_id = tid, !.claims = claims]
    /\ ops' = ops + 1
    /\ UNCHANGED agentVars

ApplyClaimUpdates(sid, updates) ==
    /\ ops < MaxOps
    /\ memory.turn_data[sid] # <<>>
    /\ LET tid == NewestTurn(memory, sid)
           r   == apply_claim_updates(memory, heap, sid, tid, updates)
       IN /\ memory' = r.memory
          /\ heap' = r.heap
          /\ call' = [NoCall EXCEPT !.op = "apply_claim_updates",
                                    !.session_id = sid, !.turn_id = tid,
                                    !.updates = updates, !.raised = r.raised]
    /\ ops' = ops + 1
    /\ UNCHANGED agentVars

NextEvidence ==
    \/ \E sid \in Sessions : BeginTurn(sid)
    \/ \E sid \in Sessions, b \in Batches(EvidenceInputs) : AddEvidences(sid, b)

SpecEvidence == InitLedger /\ [][NextEvidence]_vars

\* one session: turns begun, claims merged and conflict verdicts applied
NextClaims ==
    \/ BeginTurn("s1")
    \/ \E b \in BatchesById(ClaimInputs, LAMBDA c : c.id) : MergeClaims("s1", b)
    \/ \E b \in BatchesById(UpdateInputs, LAMBDA u : u.claim_id) :
          ApplyClaimUpdates("s1", b)

SpecClaims == InitLedger /\ [][NextClaims]_vars

\* several sessions: turns begun and claims merged
NextInherit ==
    \/ \E sid \in Sessions : BeginTurn(sid)
    \/ \E sid \in Sessions, b \in BatchesById(ClaimInputs, LAMBDA c : c.id) :
          MergeClaims(sid, b)

SpecInherit == InitLedger /\ [][NextInherit]_vars

\* claims of one id that differ in text, aspects, stance and salience
MergeFieldInputs ==
    {Claim("c1", text, {"RAG_1"}, aspects, 85, stance, salience) :
        text \in {"x1", "x2"}, aspects \in {{}, {"a1"}, {"a2"}},
        stance \in {None, Some("pro"), Some("con")},
        salience \in {None, Some(60), Some(90)}}

\* one session: turns begun and claims merged one at a time
NextMerge ==
    \/ BeginTurn("s1")
    \/ \E c \in MergeFieldInputs : MergeClaims("s1", <<c>>)

SpecMerge == InitLedger /\ [][NextMerge]_vars

\* verdicts as _validate_resolution hands them on: an action, a confidence,
\* a replacement text and evidence ids when the adjudicator gave them
VerdictInputs ==
    {Update("c1", "upheld", Some(60), None, None),
     Update("c1", "revised", Some(70), Some("y"), Some({"WEB_1"})),
     Update("c1", "revised", Some(70), None, Some({"WEB_1"})),
     Update("c2", "revised", Some(90), Some("y"), None),
     Update("c1", "retracted", Some(0), None, None),
     Update("c9", "upheld", Some(60), None, None)}

\* one session: turns begun, claims merged and verdicts applied one at a time
NextUpdates ==
    \/ BeginTurn("s1")
    \/ \E c \in ClaimInputs : MergeClaims("s1", <<c>>)
    \/ \E u \in VerdictInputs : ApplyClaimUpdates("s1", <<u>>)

SpecUpdates == InitLedger /\ [][NextUpdates]_vars

-----------------------------------------------------------------------------
(* core/memory.py: the plan list of a turn and the session archive *)

\* PlanStep: the fields the research loop reads and writes
PlanStep(step_id, goal, priority, status) ==
    [step_id |-> step_id, goal |-> goal, priority |-> priority,
     status |-> status]

\* set_plan_list
set_plan_list(mem, session_id, turn_id, steps) ==
    LET turn == TurnOf(mem, session_id, turn_id)
    IN SetTurn(mem, session_id, turn_id,
               [turn EXCEPT !.plan_list = steps,
                            !.current_step_id =
                                IF steps # <<>> THEN Some(steps[1].step_id) ELSE @])

\* get_plan_list
get_plan_list(mem, session_id, turn_id) ==
    IF turn_id \in TurnIdsOf(mem, session_id)
    THEN TurnOf(mem, session_id, turn_id).plan_list
    ELSE <<>>

\* the first step of a list that passes a test, or None
FirstStep(steps, Test(_)) ==
    LET hits == SelectSeq(steps, Test)
    IN IF hits = <<>> THEN None ELSE Some(Head(hits))

\* get_current_step
get_current_step(mem, session_id, turn_id) ==
    IF turn_id \notin TurnIdsOf(mem, session_id) THEN None
    ELSE LET turn == TurnOf(mem, session_id, turn_id)
         IN IF TruthyStr(turn.current_step_id)
            THEN FirstStep(turn.plan_list,
                           LAMBDA s : s.step_id = turn.current_step_id[1])
            ELSE None

\* set_current_step
set_current_step(mem, session_id, turn_id, step_id) ==
    SetTurn(mem, session_id, turn_id,
            [TurnOf(mem, session_id, turn_id) EXCEPT !.current_step_id = Some(step_id)])

\* set_step_status: the first step of the list with that id
set_step_status(mem, session_id, turn_id, step_id, status) ==
    IF turn_id \notin TurnIdsOf(mem, session_id) THEN mem
    ELSE LET turn == TurnOf(mem, session_id, turn_id)
             hit  == {i \in 1..Len(turn.plan_list) :
                         turn.plan_list[i].step_id = step_id}
         IN IF hit = {} THEN mem
            ELSE LET i == CHOOSE k \in hit : \A m \in hit : k <= m
                 IN SetTurn(mem, session_id, turn_id,
                            [turn EXCEPT !.plan_list[i].status = status])

\* rollup_to_session_archive: the archive is the text built from the first
\* five high-quality claim texts, kept as the list of those texts
rollup_to_session_archive(mem, hp, session_id, turn_id) ==
    LET claims == IF turn_id \in TurnIdsOf(mem, session_id)
                  THEN TurnOf(mem, session_id, turn_id).claims_active ELSE <<>>
        high_quality_claims ==
            SelectSeq(claims, LAMBDA r : /\ hp[r].confidence >= 70
                                         /\ OrElse(hp[r].salience, 50) >= 50)
        summary_texts ==
            [i \in 1..(IF Len(high_quality_claims) > 5 THEN 5
                       ELSE Len(high_quality_claims)) |->
                hp[high_quality_claims[i]].text]
    IN IF high_quality_claims # <<>>
       THEN [mem EXCEPT !.session_archives =
                Put(@, session_id, <<"Key findings">> \o summary_texts)]
       ELSE mem

-----------------------------------------------------------------------------
(* One session of the ledger driven through its API: turns begun, evidence  *)
(* added, claims merged, the newest turn rolled up into the archive.        *)

\* c1 cites two items, c2 one; c3 is below the inheritance bar; c4 passes the
\* roll-up bar only
InheritInputs ==
    {Claim("c1", "x1", {"RAG_1", "WEB_1"}, {"a1"}, 85, None, Some(70)),
     Claim("c2", "x2", {"WEB_1"}, {}, 90, None, Some(80)),
     Claim("c3", "x3", {"RAG_1"}, {}, 60, None, Some(90)),
     Claim("c4", "x4", {}, {}, 85, None, None)}

Rollup(sid) ==
    /\ memory.turn_data[sid] # <<>>
    /\ LET tid == NewestTurn(memory, sid)
       IN /\ memory' = rollup_to_session_archive(memory, heap, sid, tid)
          /\ call' = [NoCall EXCEPT !.op = "rollup_to_session_archive",
                                    !.session_id = sid, !.turn_id = tid]
    /\ UNCHANGED <<heap, ops, agentVars>>

NextLedger ==
    \/ BeginTurn("s1")
    \/ \E b \in Batches(EvidenceInputs) : AddEvidences("s1", b)
    \/ \E b \in BatchesById(InheritInputs, LAMBDA c : c.id) : MergeClaims("s1", b)
    \/ Rollup("s1")

SpecLedger == InitLedger /\ [][NextLedger]_vars

-----------------------------------------------------------------------------
(* The plan of a turn driven through the ledger's API: the caller sets the  *)
(* plan of the newest turn once, as run_turn does, and sets step statuses.  *)

PlanInputs ==
    {<<PlanStep("s1", "g", 1, "NOT_START")>>,
     <<PlanStep("s1", "g", 1, "NOT_START"),
       PlanStep("s2", "g", 2, "NOT_START")>>}

\* PlanStep.status
Statuses == {"NOT_START", "RUNNING", "FINISHED"}

SetPlanList(sid, steps) ==
    /\ memory.turn_data[sid] # <<>>
    /\ LET tid == NewestTurn(memory, sid)
       IN /\ get_plan_list(memory, sid, tid) = <<>>
          /\ memory' = set_plan_list(memory, sid, tid, steps)
          /\ call' = [NoCall EXCEPT !.op = "set_plan_list", !.session_id = sid,
                                    !.turn_id = tid]
    /\ UNCHANGED <<heap, ops, agentVars>>

SetStepStatus(sid, step_id, status) ==
    /\ memory.turn_data[sid] # <<>>
    /\ LET tid == NewestTurn(memory, sid)
       IN /\ memory' = set_step_status(memory, sid, tid, step_id, status)
          /\ call' = [NoCall EXCEPT !.op = "set_step_status", !.session_id = sid,
                                    !.turn_id = tid]
    /\ UNCHANGED <<heap, ops, agentVars>>

NextPlan ==
    \/ BeginTurn("s1")
    \/ \E steps \in PlanInputs : SetPlanList("s1", steps)
    \/ \E step_id \in {"s1", "s2"}, status \in Statuses :
          SetStepStatus("s1", step_id, status)

SpecPlan == InitLedger /\ [][NextPlan]_vars

-----------------------------------------------------------------------------
(* llm/client.py and core/acts: the collaborators. A reply of the language *)
(* model is a service error, a text that is not JSON, or a JSON object; a   *)
(* key a JSON object may lack is an Optional.                               *)

Reply(kind, val) == [kind |-> kind, val |-> val]

\* LLMClient.generate_json: the API error is re-raised, and so is the parse
\* error of a text that is not JSON
generate_json_raises(reply) == reply.kind \in {"error", "unparsable"}

\* LLMClient.chat (used by GenerateOutput): the API error is re-raised, and an
\* empty response raises
chat_raises(reply) == reply.kind \in {"error", "empty"}

Metrics(v) ==
    [sufficiency |-> v, reliability |-> v, consistency |-> v, recency |-> v,
     diversity |-> v]

Issue(type, severity, blocking, desc, aspect, claims) ==
    [type |-> type, severity |-> severity, blocking |-> blocking, desc |-> desc,
     aspect |-> aspect, claims |-> claims]

EvaluateSnapshot(passed, metrics, issues) ==
    [passed |-> passed, metrics |-> metrics, issues |-> issues]

\* Planner.generate_plan, lines 64-110: a missing "steps" key gives the empty
\* plan; a step without one of its required keys gives the fallback plan
planner_fallback ==
    <<PlanStep("s1", "Gather initial information", 1, "NOT_START")>>

generate_plan(result) ==
    LET steps_data == IF result.steps = None THEN <<>> ELSE result.steps[1]
    IN IF \E i \in 1..Len(steps_data) : steps_data[i].step_id = None
       THEN planner_fallback
       ELSE [i \in 1..Len(steps_data) |->
                PlanStep(steps_data[i].step_id[1], steps_data[i].goal,
                         steps_data[i].priority, "NOT_START")]

\* Evaluate.evaluate, lines 126-187
evaluate_fallback ==
    EvaluateSnapshot(FALSE, Metrics(50),
                     <<Issue("gap", "med", FALSE, "need more", Some("general"), None)>>)

evaluate(result) ==
    IF result.metrics = None \/ result.passed = None
    THEN evaluate_fallback
    ELSE EvaluateSnapshot(result.passed[1], result.metrics[1], result.issues)

\* MakeDecision.decide, lines 22-30: the decision taken without the model
QuickFinishNoBlocking(last_evaluate) ==
    /\ last_evaluate.passed
    /\ ~\E i \in 1..Len(last_evaluate.issues) : last_evaluate.issues[i].blocking

QuickFinishNoIssues(last_evaluate) ==
    last_evaluate.passed /\ last_evaluate.issues = <<>>

QuickFinish(last_evaluate) ==
    /\ last_evaluate.passed
    /\ ~\E i \in 1..Len(last_evaluate.issues) :
          last_evaluate.issues[i].blocking /\ last_evaluate.issues[i].severity = "high"

Exists(issues, Test(_)) == \E i \in 1..Len(issues) : Test(issues[i])

\* MakeDecision._fallback_decision
fallback_decision_any_severity(last_evaluate) ==
    LET issues == last_evaluate.issues
    IN IF last_evaluate.passed /\ ~Exists(issues, LAMBDA i : i.blocking)
       THEN "FINISH"
       ELSE IF Exists(issues, LAMBDA i : i.type = "conflict" /\ i.blocking)
       THEN "RESOLVE_CONFLICT"
       ELSE IF Exists(issues, LAMBDA i : i.type = "freshness" /\ i.blocking)
       THEN "WEB_SEARCH"
       ELSE "RAG"

fallback_decision(last_evaluate) ==
    LET issues == last_evaluate.issues
    IN IF last_evaluate.passed /\ ~Exists(issues, LAMBDA i : i.blocking)
       THEN "FINISH"
       ELSE IF Exists(issues, LAMBDA i : i.type = "conflict" /\ i.severity = "high"
                                         /\ i.blocking)
       THEN "RESOLVE_CONFLICT"
       ELSE IF Exists(issues, LAMBDA i : i.type = "freshness" /\ i.blocking)
       THEN "WEB_SEARCH"
       ELSE "RAG"

valid_actions == {"RAG", "WEB_SEARCH", "RESOLVE_CONFLICT", "FINISH"}

\* MakeDecision.decide, lines 81-94
decide(result, last_evaluate) ==
    IF result.action = None \/ result.rationale = None
       \/ result.action[1] \notin valid_actions
    THEN fallback_decision(last_evaluate)
    ELSE result.action[1]

\* _fallback_decision applied to evaluation snapshots of up to MaxIssues
\* issues of every type, severity and blocking flag
MaxIssues == 2

IssueInputs ==
    {Issue(type, severity, blocking, "d", None, None) :
        type \in {"gap", "conflict", "freshness", "quality"},
        severity \in {"low", "med", "high"},
        blocking \in BOOLEAN}

SnapshotInputs ==
    {EvaluateSnapshot(passed, Metrics(80), issues) :
        passed \in BOOLEAN,
        issues \in UNION {[1..k -> IssueInputs] : k \in 0..MaxIssues}}

InitFallback ==
    /\ memory = MemoryFacade
    /\ heap = <<>>
    /\ call = NoCall
    /\ ops = 0
    /\ pc = "fallback"
    /\ \E last_evaluate \in SnapshotInputs :
          frame = [NoFrame EXCEPT !.evaluate_result = Some(last_evaluate)]

FallbackDecision ==
    /\ pc = "fallback"
    /\ frame' = [frame EXCEPT
                    !.decision = Some(fallback_decision(frame.evaluate_result[1]))]
    /\ pc' = "decided"
    /\ UNCHANGED <<memory, heap, call, ops>>

NextFallback == FallbackDecision

SpecFallback == InitFallback /\ [][NextFallback]_vars

\* RAGQueryGenerator / WebSearchQueryGenerator.generate_query: an empty or
\* missing query gives the keyword query with result count 5; a result count
\* that is missing or out of range is replaced by 5
TopKLimit(source) == IF source = "RAG" THEN 20 ELSE 50

generate_query(source, result) ==
    IF ~TruthyStr(result.query)
    THEN [query |-> "keywords", top_k |-> 5]
    ELSE [query |-> result.query[1],
          top_k |-> IF result.top_k = None \/ result.top_k[1] < 1
                       \/ result.top_k[1] > TopKLimit(source)
                    THEN 5 ELSE result.top_k[1]]

\* the evidence id an item without an id gets: RAG_<i> or WEB_<i>
DefaultEvidenceId(source, i) ==
    source \o "_" \o (CASE i = 1 -> "1" [] i = 2 -> "2" [] OTHER -> "3")

\* QueryExecutor.execute_rag_query / execute_web_query: an item without a
\* source is skipped, an item without an id gets the default one
RECURSIVE ParseEvidences(_, _, _, _)
ParseEvidences(source, data, i, evidences) ==
    IF i > Len(data) THEN evidences
    ELSE LET ev_data == data[i]
         IN IF ev_data.source = None
            THEN ParseEvidences(source, data, i + 1, evidences)
            ELSE ParseEvidences(source, data, i + 1,
                    Append(evidences,
                           EvidenceItem(IF ev_data.id = None
                                        THEN DefaultEvidenceId(source, i)
                                        ELSE ev_data.id[1],
                                        ev_data.source[1].url,
                                        ev_data.source[1].domain,
                                        ev_data.source[1].type,
                                        ev_data.time, ev_data.text)))

execute_query(source, result) ==
    ParseEvidences(source,
                   IF result.evidences = None THEN <<>> ELSE result.evidences[1],
                   1, <<>>)

\* Synthesize.synthesize_claims, lines 41-70: a claim without id gives the
\* fallback claim; a missing "claims" key gives no claim
synthesize_fallback(evidences) ==
    <<Claim("c1", "initial understanding",
            IF evidences # <<>> THEN {evidences[1].id} ELSE {},
            {"general"}, 50, None, None)>>

synthesize_claims(result, evidences, stance_enabled) ==
    LET claims_data == IF result.claims = None THEN <<>> ELSE result.claims[1]
    IN IF \E i \in 1..Len(claims_data) : claims_data[i].id = None
       THEN synthesize_fallback(evidences)
       ELSE [i \in 1..Len(claims_data) |->
                LET claim_data == claims_data[i]
                IN Claim(claim_data.id[1], claim_data.text, claim_data.support_ids,
                         claim_data.aspects,
                         IF claim_data.confidence = None THEN 50
                         ELSE claim_data.confidence[1],
                         IF stance_enabled THEN claim_data.stance ELSE None,
                         claim_data.salience)]

-----------------------------------------------------------------------------
(* core/acts/resolve_conflict.py: the conflict pipeline *)

\* _handle_conflict_resolution, lines 568-571: the conflict issues that name
\* their claims
ConflictsOfAnyIssue(evaluate_result) ==
    SelectSeq(evaluate_result.issues, LAMBDA i : i.type = "conflict")

Conflicts(evaluate_result) ==
    SelectSeq(evaluate_result.issues,
              LAMBDA i : i.type = "conflict" /\ i.claims # None /\ i.claims[1] # <<>>)

\* _validate_search_plan: the queries of the plan, RAG queries first
validate_search_plan(result) ==
    [queries_rag |-> IF result.queries_rag = None THEN <<>> ELSE result.queries_rag[1],
     queries_web |-> IF result.queries_web = None THEN <<>> ELSE result.queries_web[1]]

\* _mock_rag_search / _mock_web_search: every result becomes an item; its id
\* is RAG_<i> or WEB_<i> whatever the reply says
mock_search(source, result) ==
    LET results == IF result.results = None THEN <<>> ELSE result.results[1]
    IN [i \in 1..Len(results) |->
           IF source = "RAG"
           THEN EvidenceItem(DefaultEvidenceId("RAG", i),
                             "internal://docs/" \o results[i].source,
                             "internal.local", "internal",
                             results[i].time, results[i].text)
           ELSE EvidenceItem(DefaultEvidenceId("WEB", i),
                             results[i].url, results[i].domain, "web",
                             results[i].time, results[i].text)]

\* _validate_resolution: a verdict without an action is "upheld", without a
\* confidence 0.5; new_text and evidence_ids are kept when truthy
validate_resolution(result) ==
    LET data == IF result.updated_claims = None THEN <<>> ELSE result.updated_claims[1]
        summary_data == result.resolution_summary
    IN [updated_claims |->
           [i \in 1..Len(data) |->
               Update(IF data[i].claim_id = None THEN "" ELSE data[i].claim_id[1],
                      IF data[i].action = None THEN "upheld" ELSE data[i].action[1],
                      IF data[i].new_confidence = None THEN Some(50)
                      ELSE data[i].new_confidence,
                      IF TruthyStr(data[i].new_text) THEN data[i].new_text ELSE None,
                      IF data[i].evidence_ids # None /\ data[i].evidence_ids[1] # {}
                      THEN data[i].evidence_ids ELSE None)],
        resolution_summary |->
           IF summary_data = None
           THEN [conflict_groups_total |-> 0, groups_resolved |-> 0]
           ELSE summary_data[1]]

\* _apply_updates on the copies of the claims the loop iteration started
\* with: update["new_text"] raises KeyError for a "revised" verdict without
\* text on a claim of the list
apply_updates_raises(claims_active, updated_claims) ==
    \E i \in 1..Len(updated_claims) :
       /\ \E j \in 1..Len(claims_active) :
             claims_active[j].id = updated_claims[i].claim_id
       /\ updated_claims[i].action = "revised"
       /\ updated_claims[i].new_text = None

\* _apply_updates, line 170: claims_map = {c["id"]: c.copy() for c in
\* claims_active}, a key at the place of its first claim with the value of
\* its last
ClaimsMap(claims_active) ==
    LET first == SelectSeq([i \in 1..Len(claims_active) |-> i],
                           LAMBDA i : \A j \in 1..(i - 1) :
                                         claims_active[j].id # claims_active[i].id)
    IN [k \in 1..Len(first) |->
           claims_active[CHOOSE i \in 1..Len(claims_active) :
              /\ claims_active[i].id = claims_active[first[k]].id
              /\ \A j \in (i + 1)..Len(claims_active) :
                    claims_active[j].id # claims_active[i].id]]

\* _apply_updates, lines 177-189: one verdict applied to the copy it names
ApplyToCopy(claim, update) ==
    LET c == IF update.action = "upheld"
             THEN [claim EXCEPT !.confidence = update.new_confidence[1]]
             ELSE IF update.action = "revised"
             THEN [claim EXCEPT !.text = update.new_text[1],
                                !.confidence = update.new_confidence[1]]
             ELSE IF update.action = "retracted"
             THEN [claim EXCEPT !.confidence = 0]
             ELSE claim
    IN [c EXCEPT !.support_ids = IF update.evidence_ids # None
                                 THEN @ \cup update.evidence_ids[1] ELSE @]

RECURSIVE ApplyToCopies(_, _)
ApplyToCopies(claims_map, updated_claims) ==
    IF updated_claims = <<>> THEN claims_map
    ELSE ApplyToCopies([k \in 1..Len(claims_map) |->
                           IF claims_map[k].id = Head(updated_claims).claim_id
                           THEN ApplyToCopy(claims_map[k], Head(updated_claims))
                           ELSE claims_map[k]],
                       Tail(updated_claims))

\* _apply_updates: the claims the post-evaluation is given
apply_updates(claims_active, updated_claims) ==
    SelectSeq(ApplyToCopies(ClaimsMap(claims_active), updated_claims),
              LAMBDA c : c.confidence > 0)

\* texts of more than 200 characters
LongTexts == {"long text"}

\* _evidence_to_dict: the snippet is the text cut to 200 characters and "..."
Snippet(text) == IF text \in LongTexts THEN "long te..." ELSE text

\* urls with "internal" in them
InternalUrls == {"internal://docs/d1", "https://internal.example/p1"}

\* _evidence_to_dict (resolve_conflict.py 398-409) followed by the rebuild of
\* the item in _handle_conflict_resolution (589-594)
RebuildEvidence(evidence) ==
    EvidenceItem(evidence.id, evidence.source.url, evidence.source.domain,
                 IF evidence.source.url \in InternalUrls THEN "internal" ELSE "web",
                 evidence.time, Snippet(evidence.text))

\* ResolveConflict._evaluate_to_dict followed by the agent's
\* _dict_to_evaluate: the issues lose their type-specific fields
RebuildEvaluate(snapshot) ==
    EvaluateSnapshot(snapshot.passed, snapshot.metrics,
                     [i \in 1..Len(snapshot.issues) |->
                         [snapshot.issues[i] EXCEPT !.aspect = None,
                                                    !.claims = None]])

\* _handle_conflict_resolution, line 614
IsResolvedIgnoringPassed(post_eval) ==
    ~Exists(post_eval.issues, LAMBDA i : i.blocking /\ i.type = "conflict")

IsResolved(post_eval) ==
    /\ post_eval.passed
    /\ ~Exists(post_eval.issues, LAMBDA i : i.blocking /\ i.type = "conflict")

-----------------------------------------------------------------------------
(* core/agent_with_memory_content_monitor.py: run_turn, one invocation.    *)
(* pc is the place in run_turn, frame its local variables.  A step of the  *)
(* model is one call of a collaborator with the ledger calls that follow   *)
(* it up to the next collaborator call; a raise of the collaborator comes  *)
(* before those ledger calls.                                              *)

\* run_turn, line 169: the per-step loop limit
StepLoopLimit == 5

\* the largest max_loops passed with the collaborators replying freely
MaxLoopsRich == 1

\* the max_loops passed with the collaborators never converging
MaxLoopsLean == 7

\* the max_loops passed with the collaborators reporting a conflict
MaxLoopsConflict == 2

\* the replies of the collaborators.  "rich": every kind of reply.  "lean":
\* a research that neither fails nor finds anything: the evaluation is never
\* passed, retrieval and synthesis come back empty.  "conflict": no service
\* fails, the evaluation reports a conflict between two claims, and the
\* decision is to resolve it or to finish the step.
Raising == {Reply("error", None), Reply("unparsable", None)}

Json(S) == {Reply("json", Some(v)) : v \in S}

StepData(step_id, priority) ==
    [step_id |-> Some(step_id), goal |-> "g", priority |-> priority]

PlannerReplies(env) ==
    Json({[steps |-> Some(<<StepData("s1", 1)>>)],
          [steps |-> Some(<<StepData("s1", 2), StepData("s2", 1)>>)],
          [steps |-> Some(<<StepData("s1", 3), StepData("s2", 2),
                            StepData("s3", 1)>>)]})
    \cup IF env \in {"lean", "conflict"} THEN {}
         ELSE Raising \cup Json({[steps |-> None],
                                 [steps |-> Some(<<[step_id |-> None, goal |-> "g",
                                                   priority |-> 1]>>)]})

EvalData(passed, issues) ==
    [metrics |-> Some(Metrics(80)), passed |-> Some(passed), issues |-> issues]

ConflictIssue == Issue("conflict", "high", TRUE, "c1 against c2", None,
                       Some(<<"c1", "c2">>))

MediumConflict == Issue("conflict", "med", TRUE, "c1 against c2", None,
                        Some(<<"c1", "c2">>))

\* a conflict the evaluator reports without naming the claims
UnnamedConflict == Issue("conflict", "high", TRUE, "claims disagree", None, None)

EvaluatorReplies(env) ==
    IF env = "conflict" THEN Json({EvalData(FALSE, <<ConflictIssue>>)})
    ELSE
    Json({[metrics |-> None, passed |-> None, issues |-> <<>>]})
    \cup IF env = "lean" THEN {}
         ELSE Raising \cup Json({EvalData(TRUE, <<>>),
                                 EvalData(FALSE, <<ConflictIssue>>),
                                 EvalData(TRUE, <<ConflictIssue>>),
                                 EvalData(TRUE, <<MediumConflict>>),
                                 EvalData(FALSE, <<UnnamedConflict>>)})

DecisionData(action) == [action |-> action, rationale |-> Some("r")]

DeciderReplies(env) ==
    IF env = "conflict"
    THEN Json({DecisionData(Some("RESOLVE_CONFLICT")), DecisionData(Some("FINISH"))})
    ELSE
    Json({DecisionData(Some("RAG")), DecisionData(Some("FINISH"))})
    \cup IF env = "lean" THEN {}
         ELSE Raising \cup Json({DecisionData(Some("WEB_SEARCH")),
                                 DecisionData(Some("RESOLVE_CONFLICT")),
                                 DecisionData(Some("STOP")),
                                 DecisionData(None)})

QueryReplies(env) ==
    Json({[query |-> Some("q1"), top_k |-> Some(3)]})
    \cup IF env \in {"lean", "conflict"} THEN {}
         ELSE Raising \cup Json({[query |-> None, top_k |-> None],
                                 [query |-> Some("q1"), top_k |-> Some(99)]})

EvidenceData(id, url, text) ==
    [id |-> id, source |-> Some([url |-> url, domain |-> "d", type |-> "media"]),
     time |-> "2025-01", text |-> text]

RetrievalReplies(env) ==
    Json({[evidences |-> None]})
    \cup IF env \in {"lean", "conflict"} THEN {}
         ELSE Raising \cup
              Json({[evidences |-> Some(<<EvidenceData(None, "u1", "t1")>>)],
                    [evidences |-> Some(<<EvidenceData(Some("E0"), "u0", "t0")>>)],
                    [evidences |-> Some(<<EvidenceData(Some("E1"), "u1", "t1"),
                                          [id |-> None, source |-> None,
                                           time |-> "2025-01", text |-> "t2"]>>)]})

ClaimData(id, support_ids, confidence, salience) ==
    [id |-> id, text |-> "x", support_ids |-> support_ids, aspects |-> {"a1"},
     confidence |-> confidence, stance |-> None, salience |-> salience]

SynthesizerReplies(env) ==
    Json({[claims |-> None]})
    \cup IF env \in {"lean", "conflict"} THEN {}
         ELSE Raising \cup
              Json({[claims |-> Some(<<ClaimData(Some("c1"), {"RAG_1"}, Some(85), Some(70)),
                                       ClaimData(Some("c2"), {"E1"}, None, None)>>)],
                    [claims |-> Some(<<ClaimData(None, {}, Some(85), None)>>)]})

SearchPlanReplies ==
    Raising \cup
    Json({[queries_rag |-> None, queries_web |-> None],
          [queries_rag |-> Some(<<"q2">>), queries_web |-> Some(<<"q3">>)],
          [queries_rag |-> Some(<<"q2", "q4", "q5">>), queries_web |-> None]})

\* a search that finds the url and text of the item the earlier turn stored
RepeatedResult ==
    Json({[results |-> Some(<<[source |-> "d0", url |-> "u0", domain |-> "d",
                               time |-> "2024-12", text |-> "t0"]>>)]})

SearchReplies ==
    Raising \cup
    Json({[results |-> Some(<<[source |-> "d1", url |-> "u1", domain |-> "d",
                               time |-> "2025-01", text |-> "long text"]>>)]})
    \cup RepeatedResult

VerdictData(claim_id, action, new_confidence, new_text) ==
    [claim_id |-> claim_id, action |-> action, new_confidence |-> new_confidence,
     new_text |-> new_text, evidence_ids |-> Some({"RAG_1"})]

\* a verdict that revises c1 on the strength of the web result
VerdictOnWebResult ==
    Json({[updated_claims |->
              Some(<<[VerdictData(Some("c1"), Some("revised"), Some(80), Some("y"))
                         EXCEPT !.evidence_ids = Some({"WEB_1"})]>>),
           resolution_summary |-> None]})

AdjudicatorReplies ==
    Raising \cup
    Json({[updated_claims |-> None, resolution_summary |-> None],
          [updated_claims |-> Some(<<VerdictData(Some("c1"), None, None, None)>>),
           resolution_summary |-> None],
          [updated_claims |-> Some(<<VerdictData(Some("c1"), Some("revised"), Some(90), None)>>),
           resolution_summary |-> None],
          [updated_claims |-> Some(<<VerdictData(Some("c1"), Some("upheld"), Some(150), None)>>),
           resolution_summary |-> None],
          [updated_claims |->
              Some(<<[VerdictData(Some("c2"), Some("upheld"), Some(70), None)
                         EXCEPT !.evidence_ids = Some({"WEB_1"})]>>),
           resolution_summary |-> None],
          [updated_claims |-> Some(<<VerdictData(Some("c1"), Some("retracted"), Some(0), None),
                                     VerdictData(Some("c2"), Some("revised"), Some(90), Some("y"))>>),
           resolution_summary |-> Some([conflict_groups_total |-> 1,
                                        groups_resolved |-> 1])]})
    \cup VerdictOnWebResult

\* the replies a conflict pipeline gets in an environment: in "conflict" no
\* service fails and no search repeats a stored item
RepliesIn(env, replies) ==
    IF env = "conflict"
    THEN {reply \in replies : /\ reply.kind = "json"
                              /\ reply \notin RepeatedResult \cup VerdictOnWebResult}
    ELSE replies

PostEvaluatorReplies ==
    Raising \cup Json({[metrics |-> None, passed |-> None, issues |-> <<>>],
                       EvalData(TRUE, <<>>),
                       EvalData(FALSE, <<>>),
                       EvalData(TRUE, <<ConflictIssue>>)})

OutputReplies ==
    {Reply("error", None), Reply("empty", None), Reply("text", Some("answer"))}

\* run_turn, lines 104-115: the configuration of a turn called without one
DefaultConfig == [stance_enabled |-> FALSE, sufficiency |-> 80]

\* multi_turn_demo.py, lines 54-74: a configuration of the caller's own
CustomConfig == [stance_enabled |-> FALSE, sufficiency |-> 75]

\* run_turn, lines 101-116: the configuration the turn works with and stores
TurnConfig(config) == IF config # None THEN config[1] ELSE DefaultConfig

\* run_turn, line 365
FailureMessage(e) == "An error occurred during research: " \o e

\* run_turn, lines 361-365: the handler makes no ledger call
ExceptionLedgerRollback(mem, session_id, turn_id) ==
    [mem EXCEPT !.turn_data[session_id] =
        SelectSeq(@, LAMBDA t : t.turn_id # turn_id)]

ExceptionLedger(mem, session_id, turn_id) == mem

\* an exception raised inside the try block, the ledger being mem and hp
RaisePropagating(by, kind, mem, hp, f) ==
    /\ memory' = mem
    /\ heap' = hp
    /\ frame' = [f EXCEPT !.fault = Some([by |-> by, kind |-> kind])]
    /\ pc' = "raised"

Raise(by, kind, mem, hp, f) ==
    /\ memory' = ExceptionLedger(mem, f.session_id, f.turn_id)
    /\ heap' = hp
    /\ frame' = [f EXCEPT !.fault = Some([by |-> by, kind |-> kind]),
                          !.result = Some(FailureMessage(kind))]
    /\ pc' = "returned"

\* run_turn, line 146: the loop condition
LoopGuardInclusive(loops, max_loops) == loops <= max_loops

LoopGuard(loops, max_loops) == loops < max_loops

\* run_turn, line 169: the deadlock breaker's test
ExceedsStepLimitLate(count) == count > StepLoopLimit + 1

ExceedsStepLimit(count) == count > StepLoopLimit

\* _get_next_unfinished_step
get_next_unfinished_step_by_priority(mem, session_id, turn_id) ==
    LET steps == get_plan_list(mem, session_id, turn_id)
    IN FirstStep(steps,
                 LAMBDA s : /\ s.status # "FINISHED"
                            /\ \A i \in 1..Len(steps) :
                                  steps[i].status # "FINISHED"
                                     => s.priority <= steps[i].priority)

get_next_unfinished_step(mem, session_id, turn_id) ==
    FirstStep(get_plan_list(mem, session_id, turn_id),
              LAMBDA s : s.status # "FINISHED")

\* run_turn, lines 172-184 and 282-294: the step is finished and the loop
\* goes on with the next unfinished step, or is left
FinishStepLeaving(f) ==
    /\ memory' = set_step_status(memory, f.session_id, f.turn_id, f.step[1],
                                 "FINISHED")
    /\ pc' = "output"
    /\ frame' = f
    /\ heap' = heap

FinishStep(f) ==
    LET mem1 == set_step_status(memory, f.session_id, f.turn_id, f.step[1],
                                "FINISHED")
        next_step == get_next_unfinished_step(mem1, f.session_id, f.turn_id)
    IN /\ memory' = IF next_step # None
                    THEN set_current_step(mem1, f.session_id, f.turn_id,
                                          next_step[1].step_id)
                    ELSE mem1
       /\ pc' = IF next_step # None THEN "loop" ELSE "output"
       /\ frame' = f
       /\ heap' = heap

\* get_previous_turns_context, lines 405-407: the n claims of a turn that
\* come first when sorted by confidence * (salience or 0.5), largest first,
\* claims of equal rank in list order
RECURSIVE TopClaims(_, _, _)
TopClaims(hp, refs, n) ==
    IF n = 0 \/ refs = <<>> THEN <<>>
    ELSE LET Rank(r) == hp[r].confidence * OrElse(hp[r].salience, 50)
             i == CHOOSE k \in 1..Len(refs) :
                     \A j \in 1..Len(refs) :
                        /\ Rank(refs[j]) <= Rank(refs[k])
                        /\ Rank(refs[j]) = Rank(refs[k]) => k <= j
         IN <<refs[i]>> \o
            TopClaims(hp, SubSeq(refs, 1, i - 1) \o SubSeq(refs, i + 1, Len(refs)),
                      n - 1)

\* MemoryFacade.get_previous_turns_context with limit = 3: the other turns
\* of the session, the last three in the order of their ids (the ids of the
\* model are made in increasing order), each with its query and top claims
get_previous_turns_context(mem, hp, session_id, current_turn_id) ==
    LET others == SelectSeq(mem.turn_data[session_id],
                            LAMBDA t : t.turn_id # current_turn_id)
        turns  == SubSeq(others, IF Len(others) > 3 THEN Len(others) - 2 ELSE 1,
                         Len(others))
    IN [previous_queries |->
            [i \in 1..Len(turns) |->
                [turn_id |-> turns[i].turn_id, query |-> turns[i].user_query,
                 findings |-> [k \in 1..Len(TopClaims(hp, turns[i].claims_active, 3)) |->
                                  claim_to_dict(hp[TopClaims(hp, turns[i].claims_active, 3)[k]])]]],
        session_archive |-> Get(mem.session_archives, session_id, None)]

\* "sep".join(parts)
RECURSIVE Join(_, _)
Join(parts, sep) ==
    IF parts = <<>> THEN ""
    ELSE IF Len(parts) = 1 THEN parts[1]
    ELSE parts[1] \o sep \o Join(Tail(parts), sep)

\* _build_context_string, lines 472-482: the lines written for the previous
\* questions, two findings at most for each
RECURSIVE QueryParts(_, _)
QueryParts(previous_queries, i) ==
    IF i > Len(previous_queries) THEN <<>>
    ELSE LET query_info == previous_queries[i]
             shown == SubSeq(query_info.findings, 1,
                             IF Len(query_info.findings) > 2 THEN 2
                             ELSE Len(query_info.findings))
         IN <<"previous question " \o ToString(i) \o ": " \o query_info.query>>
            \o (IF shown # <<>> THEN <<"key findings:">> ELSE <<>>)
            \o [k \in 1..Len(shown) |->
                   "- " \o shown[k].text \o " (confidence: "
                        \o ToString(shown[k].confidence) \o ")"]
            \o QueryParts(previous_queries, i + 1)

\* _build_context_string
build_context_string(context) ==
    IF context.previous_queries = <<>> THEN ""
    ELSE Join(<<"based on the earlier research:">>
              \o (IF context.session_archive # None
                  THEN <<"session summary: " \o Join(context.session_archive, "; ")>>
                  ELSE <<>>)
              \o QueryParts(context.previous_queries, 1),
              "/")

\* run_turn, lines 91-96: the query the planner is given
WorkingQuery(mem, hp, session_id, turn_id, user_query, include_context) ==
    LET context == get_previous_turns_context(mem, hp, session_id, turn_id)
        context_str == build_context_string(context)
    IN IF include_context /\ context.previous_queries # <<>> /\ context_str # ""
       THEN context_str \o "//current question: " \o user_query
       ELSE user_query

\* run_turn, lines 341-342: the query the output generator is given
user_query_for_output_local(mem, f) == f.user_query

user_query_for_output(mem, f) ==
    IF f.turn_id \in TurnIdsOf(mem, f.session_id)
    THEN TurnOf(mem, f.session_id, f.turn_id).user_query
    ELSE f.user_query

\* run_turn, lines 58-116
RunTurn(session_id, user_query, config, max_loops, env, include_context) ==
    /\ pc = "idle"
    /\ LET turn_id == TurnName[TurnCount(memory) + 1]
           mem1 == begin_turn(memory, heap, session_id, turn_id, user_query)
       IN /\ memory' = set_session_config(mem1, session_id, TurnConfig(config))
          /\ frame' = [NoFrame EXCEPT !.session_id = session_id,
                                      !.turn_id = turn_id, !.plan_id = "p1",
                                      !.max_loops = max_loops, !.env = env,
                                      !.asked = user_query,
                                      !.config_arg = config,
                                      !.config_before =
                                          IF session_id \in DOMAIN memory.session_configs
                                          THEN Some(memory.session_configs[session_id])
                                          ELSE None,
                                      !.config = Some(TurnConfig(config)),
                                      !.user_query =
                                          WorkingQuery(mem1, heap, session_id, turn_id,
                                                       user_query, include_context)]
    /\ pc' = "plan"
    /\ UNCHANGED <<heap, call, ops>>

\* run_turn, lines 123-145
Plan(reply) ==
    /\ pc = "plan"
    /\ IF generate_json_raises(reply)
       THEN Raise("planner", reply.kind, memory, heap,
                  [frame EXCEPT !.planner_calls = @ + 1])
       ELSE LET steps == generate_plan(reply.val[1])
                mem1  == set_plan_list(memory, frame.session_id, frame.turn_id, steps)
                f     == [frame EXCEPT !.planner_calls = @ + 1, !.malformed =
                             IF reply.val[1].steps = None
                                \/ \E i \in 1..Len(reply.val[1].steps[1]) :
                                      reply.val[1].steps[1][i].step_id = None
                             THEN @ \cup {"planner"} ELSE @]
            IN IF steps = <<>>
               THEN Raise("planner", "wrong_shape", mem1, heap, f)
               ELSE /\ memory' = begin_plan(
                                    set_current_step(mem1, frame.session_id,
                                                     frame.turn_id, steps[1].step_id),
                                    frame.session_id, frame.turn_id, frame.plan_id,
                                    <<>>, <<>>)
                    /\ frame' = [f EXCEPT !.loops = 0,
                                          !.step_loop_count = EmptyDict]
                    /\ pc' = "loop"
                    /\ heap' = heap
    /\ UNCHANGED <<call, ops>>

\* run_turn, lines 146-193: the head of a loop iteration, with the deadlock
\* breaker
LoopHead ==
    /\ pc = "loop"
    /\ IF ~LoopGuard(frame.loops, frame.max_loops)
       THEN /\ pc' = "output"
            /\ UNCHANGED <<memory, heap, frame>>
       ELSE LET step == get_current_step(memory, frame.session_id, frame.turn_id)
                f1   == [frame EXCEPT !.loops = @ + 1]
            IN IF step = None
               THEN /\ pc' = "output"
                    /\ frame' = f1
                    /\ UNCHANGED <<memory, heap>>
               ELSE LET id    == step[1].step_id
                        count == Get(frame.step_loop_count, id, 0) + 1
                        f2    == [f1 EXCEPT !.step_loop_count = Put(@, id, count),
                                            !.step = Some(id)]
                    IN IF ExceedsStepLimit(count)
                       THEN FinishStep(f2)
                       ELSE /\ frame' = [f2 EXCEPT !.claims_active =
                                            get_claims(memory, heap,
                                                       frame.session_id, frame.turn_id)]
                            /\ pc' = "evaluate"
                            /\ UNCHANGED <<memory, heap>>
    /\ UNCHANGED <<call, ops>>

\* run_turn, lines 209-219
Evaluate(reply) ==
    /\ pc = "evaluate"
    /\ LET f == [frame EXCEPT !.evaluator_calls = @ + 1]
       IN IF generate_json_raises(reply)
          THEN Raise("evaluator", reply.kind, memory, heap, f)
          ELSE LET evaluate_result == evaluate(reply.val[1])
               IN /\ memory' = set_evaluate(memory, frame.session_id, frame.turn_id,
                                            frame.plan_id, evaluate_result)
                  /\ frame' = [f EXCEPT
                        !.evaluate_result = Some(evaluate_result),
                        !.malformed = IF reply.val[1].metrics = None
                                         \/ reply.val[1].passed = None
                                      THEN @ \cup {"evaluator"} ELSE @]
                  /\ pc' = "decide"
                  /\ heap' = heap
    /\ UNCHANGED <<call, ops>>

\* run_turn, lines 281-328: the decision carried out up to the next
\* collaborator call
Execute(action, f) ==
    IF action = "FINISH" THEN FinishStep(f)
    ELSE IF action \in {"RAG", "WEB_SEARCH"}
    THEN /\ frame' = [f EXCEPT !.source = IF action = "RAG" THEN "RAG" ELSE "WEB"]
         /\ pc' = "query"
         /\ UNCHANGED <<memory, heap>>
    ELSE /\ frame' = f
         /\ pc' = IF action = "RESOLVE_CONFLICT"
                     /\ Conflicts(f.evaluate_result[1]) # <<>>
                  THEN "rc_plan" ELSE "loop"
         /\ UNCHANGED <<memory, heap>>

\* run_turn, lines 256-265, with MakeDecision.decide
Decide(reply) ==
    /\ pc = "decide"
    /\ LET f == [frame EXCEPT !.decider_calls = @ + 1]
           last_evaluate == frame.evaluate_result[1]
           g == [f EXCEPT !.decider_llm_calls = @ + 1]
       IN IF QuickFinish(last_evaluate)
          THEN Execute("FINISH", [f EXCEPT !.decision = Some("FINISH")])
          ELSE IF generate_json_raises(reply)
          THEN Raise("decider", reply.kind, memory, heap, g)
          ELSE LET action == decide(reply.val[1], last_evaluate)
               IN Execute(action,
                          [g EXCEPT !.decision = Some(action),
                                    !.malformed =
                                       IF reply.val[1].action = None
                                          \/ reply.val[1].action[1] \notin valid_actions
                                       THEN @ \cup {"decider"} ELSE @])
    /\ UNCHANGED <<call, ops>>

\* run_turn, lines 298-313: the query generator of the decided source
GenerateQuery(reply) ==
    /\ pc = "query"
    /\ IF generate_json_raises(reply)
       THEN Raise(IF frame.source = "RAG" THEN "rag_query" ELSE "web_query",
                  reply.kind, memory, heap, frame)
       ELSE /\ frame' = [frame EXCEPT
                  !.query = Some(generate_query(frame.source, reply.val[1])),
                  !.malformed = IF ~TruthyStr(reply.val[1].query)
                                THEN @ \cup {IF frame.source = "RAG"
                                             THEN "rag_query" ELSE "web_query"}
                                ELSE @]
            /\ pc' = "retrieve"
            /\ UNCHANGED <<memory, heap>>
    /\ UNCHANGED <<call, ops>>

ActionLog(type, query, out_evidence_ids) ==
    [type |-> type, query |-> query, out_evidence_ids |-> out_evidence_ids,
     status |-> "ok"]

\* run_turn, lines 304/312, and _process_new_evidences_with_monitor, lines
\* 376-389
Retrieve(reply) ==
    /\ pc = "retrieve"
    /\ IF generate_json_raises(reply)
       THEN Raise("retrieval", reply.kind, memory, heap, frame)
       ELSE LET new_evidences == execute_query(frame.source, reply.val[1])
                r == add_evidences(memory, frame.session_id, frame.turn_id,
                                   frame.plan_id, new_evidences)
            IN /\ memory' = record_action(r.memory, frame.session_id, frame.turn_id,
                                          ActionLog(frame.source, frame.query[1],
                                                    r.new_ids))
               /\ frame' = [frame EXCEPT !.new_evidences = new_evidences]
               /\ pc' = "synthesize"
               /\ heap' = heap
    /\ UNCHANGED <<call, ops>>

\* get_working_set_for_synthesize: what the synthesizer is called with
get_working_set_for_synthesize_of_new_evidences(mem, hp, f) ==
    [evidences |-> f.new_evidences,
     previous_claims |-> get_claims(mem, hp, f.session_id, f.turn_id),
     stance_enabled |-> mem.session_configs[f.session_id].stance_enabled]

get_working_set_for_synthesize(mem, hp, f) ==
    [evidences |-> get_evidences(mem, f.session_id, f.turn_id),
     previous_claims |-> get_claims(mem, hp, f.session_id, f.turn_id),
     stance_enabled |-> mem.session_configs[f.session_id].stance_enabled]

\* _process_new_evidences_with_monitor, lines 405-416
Synthesize(reply) ==
    /\ pc = "synthesize"
    /\ LET working_set == get_working_set_for_synthesize(memory, heap, frame)
           f == [frame EXCEPT !.working_set = Some(working_set)]
       IN IF generate_json_raises(reply)
          THEN Raise("synthesizer", reply.kind, memory, heap, f)
          ELSE LET new_claims ==
                       synthesize_claims(reply.val[1], working_set.evidences,
                                         working_set.stance_enabled)
                   r == merge_claims(memory, heap, frame.session_id,
                                     frame.turn_id, frame.plan_id, new_claims)
               IN /\ memory' = r.memory
                  /\ heap' = r.heap
                  /\ frame' = [f EXCEPT !.malformed =
                        IF reply.val[1].claims = None
                           \/ \E i \in 1..Len(reply.val[1].claims[1]) :
                                 reply.val[1].claims[1][i].id = None
                        THEN @ \cup {"synthesizer"} ELSE @]
                  /\ pc' = "loop"
    /\ UNCHANGED <<call, ops>>

\* ResolveConflict.resolve, phase 1 (_generate_search_plan)
GenerateSearchPlan(reply) ==
    /\ pc = "rc_plan"
    /\ IF generate_json_raises(reply)
       THEN Raise("search_planner", reply.kind, memory, heap, frame)
       ELSE LET search_plan == validate_search_plan(reply.val[1])
                queue == [i \in 1..Len(search_plan.queries_rag) |->
                             [source |-> "RAG", query |-> search_plan.queries_rag[i]]]
                         \o
                         [i \in 1..Len(search_plan.queries_web) |->
                             [source |-> "WEB", query |-> search_plan.queries_web[i]]]
            IN /\ frame' = [frame EXCEPT !.queue = queue, !.evidences = <<>>,
                                         !.resolution = None,
                                         !.searches = [RAG |-> 0, WEB |-> 0]]
               /\ pc' = IF queue = <<>> THEN "rc_adjudicate" ELSE "rc_search"
               /\ UNCHANGED <<memory, heap>>
    /\ UNCHANGED <<call, ops>>

\* ResolveConflict.resolve, phase 2 (_execute_searches), one query
ExecuteSearch(reply) ==
    /\ pc = "rc_search"
    /\ IF generate_json_raises(reply)
       THEN Raise("conflict_search", reply.kind, memory, heap, frame)
       ELSE /\ frame' = [frame EXCEPT
                  !.queue = Tail(@),
                  !.searches[Head(frame.queue).source] = @ + 1,
                  !.evidences = @ \o mock_search(Head(frame.queue).source,
                                                 reply.val[1])]
            /\ pc' = IF Tail(frame.queue) = <<>> THEN "rc_adjudicate"
                     ELSE "rc_search"
            /\ UNCHANGED <<memory, heap>>
    /\ UNCHANGED <<call, ops>>

\* ResolveConflict.resolve, phases 3 and 4 (_resolve_conflicts, _apply_updates)
ResolveConflicts(reply) ==
    /\ pc = "rc_adjudicate"
    /\ LET f == [frame EXCEPT !.adjudication = reply.kind]
       IN IF generate_json_raises(reply)
       THEN Raise("adjudicator", reply.kind, memory, heap, f)
       ELSE LET resolution == validate_resolution(reply.val[1])
            IN IF apply_updates_raises(frame.claims_active,
                                       resolution.updated_claims)
               THEN Raise("adjudicator", "wrong_shape", memory, heap, f)
               ELSE /\ frame' = [f EXCEPT
                          !.resolution = Some(resolution),
                          !.updated_claims_list =
                              apply_updates(frame.claims_active,
                                            resolution.updated_claims)]
                    /\ pc' = "rc_post_evaluate"
                    /\ UNCHANGED <<memory, heap>>
    /\ UNCHANGED <<call, ops>>

\* ResolveConflict.resolve, phase 5 (_post_evaluate), and the rest of
\* _handle_conflict_resolution, lines 585-620
PostEvaluate(reply) ==
    /\ pc = "rc_post_evaluate"
    /\ IF generate_json_raises(reply)
       THEN Raise("post_evaluator", reply.kind, memory, heap, frame)
       ELSE LET sid == frame.session_id
                tid == frame.turn_id
                updated_claims == frame.resolution[1].updated_claims
                new_evidence_items ==
                    [i \in 1..Len(frame.evidences) |->
                        RebuildEvidence(frame.evidences[i])]
                mem1 == IF new_evidence_items # <<>>
                        THEN add_evidences(memory, sid, tid, frame.plan_id,
                                           new_evidence_items).memory
                        ELSE memory
                r    == IF updated_claims # <<>>
                        THEN apply_claim_updates(mem1, heap, sid, tid, updated_claims)
                        ELSE [memory |-> mem1, heap |-> heap, raised |-> FALSE]
                post_eval == RebuildEvaluate(evaluate(reply.val[1]))
                mem2 == set_evaluate(r.memory, sid, tid, frame.plan_id, post_eval)
            IN IF r.raised
               THEN Raise("ledger", "key_error", r.memory, r.heap, frame)
               ELSE /\ memory' = IF IsResolved(post_eval)
                                 THEN set_step_status(mem2, sid, tid, frame.step[1],
                                                      "FINISHED")
                                 ELSE mem2
                    /\ heap' = r.heap
                    /\ frame' = frame
                    /\ pc' = "loop"
    /\ UNCHANGED <<call, ops>>

\* run_turn, lines 335-359
GenerateOutput(reply) ==
    /\ pc = "output"
    /\ IF chat_raises(reply)
       THEN Raise("output", reply.kind, memory, heap,
                  [frame EXCEPT !.output_calls = @ + 1])
       ELSE /\ memory' = rollup_to_session_archive(memory, heap, frame.session_id,
                                                   frame.turn_id)
            /\ frame' = [frame EXCEPT
                            !.result = reply.val,
                            !.output_calls = @ + 1,
                            !.output_query = Some(user_query_for_output(memory, frame))]
            /\ pc' = "returned"
            /\ heap' = heap
    /\ UNCHANGED <<call, ops>>

\* the ledger a session is left with by an earlier turn: the configuration
\* the caller stored, one evidence item and two claims that the next turn
\* inherits
PriorLedger ==
    LET m1 == begin_turn(set_session_config(MemoryFacade, "s1", CustomConfig),
                         <<>>, "s1", "t1", "q0")
        m2 == add_evidences(m1, "s1", "t1", NoPlan,
                  <<EvidenceItem("RAG_1", "u0", "kb.local", "internal",
                                 "2024-12", "t0")>>).memory
    IN merge_claims(m2, <<>>, "s1", "t1", NoPlan,
                    <<Claim("c1", "x1", {"RAG_1"}, {"a1"}, 85, None, Some(70)),
                      Claim("c2", "x2", {"RAG_1"}, {"a1"}, 90, None, Some(80))>>)

Init ==
    /\ \E prior \in BOOLEAN :
          /\ memory = IF prior THEN PriorLedger.memory ELSE MemoryFacade
          /\ heap = IF prior THEN PriorLedger.heap ELSE <<>>
    /\ call = NoCall
    /\ ops = 0
    /\ pc = "idle"
    /\ frame = NoFrame

\* the max_loops passed with the lean replies: what one step and what two
\* steps can use up at most, and one more than a step can use up
LeanLoops == {StepLoopLimit + 1, MaxLoopsLean, 2 * (StepLoopLimit + 1)}

\* the statements of run_turn after begin_turn, each with the replies its
\* collaborator can give
Proceed ==
    \/ \E reply \in PlannerReplies(frame.env) : Plan(reply)
    \/ LoopHead
    \/ \E reply \in EvaluatorReplies(frame.env) : Evaluate(reply)
    \/ \E reply \in DeciderReplies(frame.env) : Decide(reply)
    \/ \E reply \in QueryReplies(frame.env) : GenerateQuery(reply)
    \/ \E reply \in RetrievalReplies(frame.env) : Retrieve(reply)
    \/ \E reply \in SynthesizerReplies(frame.env) : Synthesize(reply)
    \/ \E reply \in RepliesIn(frame.env, SearchPlanReplies) : GenerateSearchPlan(reply)
    \/ \E reply \in RepliesIn(frame.env, SearchReplies) : ExecuteSearch(reply)
    \/ \E reply \in RepliesIn(frame.env, AdjudicatorReplies) : ResolveConflicts(reply)
    \/ \E reply \in RepliesIn(frame.env, PostEvaluatorReplies) : PostEvaluate(reply)
    \/ \E reply \in OutputReplies : GenerateOutput(reply)

Next ==
    \/ \E max_loops \in 0..MaxLoopsRich, include_context \in BOOLEAN :
          RunTurn("s1", "q", None, max_loops, "rich", include_context)
    \/ \E max_loops \in LeanLoops :
          RunTurn("s1", "q", Some(CustomConfig), max_loops, "lean", TRUE)
    \/ RunTurn("s1", "q", None, MaxLoopsConflict, "conflict", FALSE)
    \/ Proceed

Spec == Init /\ [][Next]_vars

\* run_turn once called: every collaborator call returns or raises, and the
\* interpreter goes on to the next statement
Running == pc # "idle" /\ Proceed

\* the turns whose collaborators may fail at every call, and the long turn
NextRunning ==
    \/ \E max_loops \in 0..MaxLoopsRich, include_context \in BOOLEAN :
          RunTurn("s1", "q", None, max_loops, "rich", include_context)
    \/ \E max_loops \in LeanLoops :
          RunTurn("s1", "q", Some(CustomConfig), max_loops, "lean", TRUE)
    \/ Proceed

SpecRunning == Init /\ [][NextRunning]_vars /\ WF_vars(Running)

-----------------------------------------------------------------------------
(* core/memory_content_monitor.py: the notifications of one loop iteration  *)
(* of run_turn (lines 160-278) with the monitoring server.  pc is the place *)
(* of the thread that runs run_turn; frame.monitor is the monitor object,   *)
(* the sender threads it has started and the server.                        *)

\* the server answers within the timeout of one second, answers later than
\* that, or cannot be reached
ServerModes == {"up", "slow", "down"}

\* the notifications of an iteration in program order: lines 161, 192, 193,
\* 223 and 273
Notifications ==
    <<"current_step", "active_claims", "active_evidences", "evaluations", "actions">>

\* add_evaluation and add_action read the stored list from the server before
\* they send
ReadsFirst(memory_type) == memory_type \in {"evaluations", "actions"}

\* MemoryContentMonitor(enabled=True) after set_session
MemoryContentMonitor(server) ==
    [enabled |-> TRUE, session_id |-> Some("s1"), server |-> server, next |-> 1,
     threads |-> <<>>]

\* _send_memory: a daemon thread is started that will post the content
send_memory(monitor, memory_type, content) ==
    IF ~monitor.enabled \/ monitor.session_id = None THEN monitor
    ELSE [monitor EXCEPT !.threads =
             Append(@, [memory_type |-> memory_type, content |-> content,
                        state |-> "started"])]

\* the place of run_turn after the notification frame.monitor[1].next
AfterNotification(monitor) ==
    IF monitor.next = Len(Notifications) THEN "notified" ELSE "notify"

InitMonitor ==
    /\ memory = MemoryFacade
    /\ heap = <<>>
    /\ call = NoCall
    /\ ops = 0
    /\ pc = "notify"
    /\ \E enable_memory_monitor \in BOOLEAN, server \in ServerModes :
          frame = [NoFrame EXCEPT !.monitor =
                      IF enable_memory_monitor
                      THEN Some(MemoryContentMonitor(server)) ELSE None]

\* run_turn, "if monitor:" and the monitor method called under it, up to its
\* first request on the calling thread or to its return
Notify ==
    /\ pc = "notify"
    /\ IF frame.monitor = None
       THEN /\ pc' = "notified"
            /\ frame' = frame
       ELSE LET monitor == frame.monitor[1]
                memory_type == Notifications[monitor.next]
            IN IF ReadsFirst(memory_type)
               THEN /\ pc' = "monitor_get"
                    /\ frame' = frame
               ELSE /\ pc' = AfterNotification(monitor)
                    /\ frame' = [frame EXCEPT !.monitor =
                          Some([send_memory(monitor, memory_type, 1)
                                   EXCEPT !.next = @ + 1])]
    /\ UNCHANGED <<memory, heap, call, ops>>

\* add_evaluation, lines 118-124 (add_action, 138-144): requests.get has
\* returned a response to the calling thread
GetReturns(ok, stored) ==
    /\ pc = "monitor_get"
    /\ frame.monitor[1].server = "up"
    /\ LET monitor == frame.monitor[1]
           memory_type == Notifications[monitor.next]
       IN /\ pc' = AfterNotification(monitor)
          /\ frame' = [frame EXCEPT !.monitor =
                Some([(IF ok THEN send_memory(monitor, memory_type, stored + 1)
                       ELSE monitor) EXCEPT !.next = @ + 1])]
    /\ UNCHANGED <<memory, heap, call, ops>>

\* add_evaluation, lines 125-126 (add_action, 145-146): requests.get has
\* raised on the calling thread, after the timeout or at once
GetRaises ==
    /\ pc = "monitor_get"
    /\ frame.monitor[1].server \in {"slow", "down"}
    /\ LET monitor == frame.monitor[1]
           memory_type == Notifications[monitor.next]
       IN /\ pc' = AfterNotification(monitor)
          /\ frame' = [frame EXCEPT !.monitor =
                Some([send_memory(monitor, memory_type, 1) EXCEPT !.next = @ + 1])]
    /\ UNCHANGED <<memory, heap, call, ops>>

\* _send_memory._send, lines 26-31, on a sender thread: the post is made, or
\* it raises and the exception is dropped
SenderPosts(k) ==
    /\ frame.monitor # None
    /\ k \in 1..Len(frame.monitor[1].threads)
    /\ frame.monitor[1].threads[k].state = "started"
    /\ frame' = [frame EXCEPT !.monitor =
          Some([frame.monitor[1] EXCEPT !.threads[k].state =
                   IF frame.monitor[1].server = "up" THEN "posted" ELSE "dropped"])]
    /\ UNCHANGED <<memory, heap, call, ops, pc>>

\* the server becomes slow, unreachable or responsive again
ServerChanges(server) ==
    /\ frame.monitor # None
    /\ frame.monitor[1].server # server
    /\ frame' = [frame EXCEPT !.monitor = Some([frame.monitor[1] EXCEPT !.server = server])]
    /\ UNCHANGED <<memory, heap, call, ops, pc>>

NextMonitor ==
    \/ Notify
    \/ \E ok \in BOOLEAN, stored \in 0..1 : GetReturns(ok, stored)
    \/ GetRaises
    \/ \E k \in 1..Len(Notifications) : SenderPosts(k)
    \/ \E server \in ServerModes : ServerChanges(server)

SpecMonitor == InitMonitor /\ [][NextMonitor]_vars

-----------------------------------------------------------------------------
(* Claims about the ledger API *)

SameContent(a, b) == a.source.url = b.source.url /\ a.text = b.text

\* C1: dedup idempotence of add_evidences.  Every call appends to the turn's
\* active evidence exactly the items whose ids it returns; no appended item
\* has the (url, text) of an item admitted before (by any turn of any session,
\* the ledger's index holding every admitted item) or of another item appended
\* by the same call; a batch made only of such duplicates returns no id and
\* leaves the active evidence as it was.
C1_DedupIdempotence ==
    [][(call'.op = "add_evidences" /\ ops' = ops + 1) =>
        LET batch  == call'.evidences
            new    == call'.new_ids
            sid    == call'.session_id
            tid    == call'.turn_id
            before == TurnOf(memory, sid, tid).evidences_active
            after  == TurnOf(memory', sid, tid).evidences_active
            added  == SubSeq(after, Len(before) + 1, Len(after))
            Old(e) == \E k \in DOMAIN memory.evidence_index :
                         SameContent(memory.evidence_index[k], e)
        IN /\ Len(after) = Len(before) + Len(new)
           /\ SubSeq(after, 1, Len(before)) = before
           /\ \A i \in 1..Len(added) :
                 /\ added[i].id = new[i]
                 /\ \E j \in 1..Len(batch) : batch[j] = added[i]
                 /\ ~Old(added[i])
                 /\ \A j \in 1..Len(added) :
                       SameContent(added[i], added[j]) => i = j
           /\ (\A i \in 1..Len(batch) : Old(batch[i])) =>
                 (new = <<>> /\ after = before)
    ]_vars

\* a batch was submitted whose item was admitted before under another id by a
\* turn of another session, and nothing was returned
C1_Witness ==
    /\ call.op = "add_evidences"
    /\ call.new_ids = <<>>
    /\ \E s \in Sessions \ {call.session_id} :
          \E i \in 1..Len(memory.turn_data[s]) :
             \E e \in Range(memory.turn_data[s][i].evidences_active) :
                SameContent(e, call.evidences[1]) /\ e.id # call.evidences[1].id

\* C2: no turn's active claim set holds a claim of confidence 0
C2_NoZeroConfidenceActive ==
    \A s \in Sessions : \A i \in 1..Len(memory.turn_data[s]) :
       \A r \in Range(memory.turn_data[s][i].claims_active) :
          heap[r].confidence # 0

\* the (sets of) support ids and the confidences a batch brings for an id
IncomingSupport(batch, id) ==
    UNION {batch[i].support_ids : i \in {j \in 1..Len(batch) : batch[j].id = id}}

IncomingConfidence(batch, id) ==
    {batch[i].confidence : i \in {j \in 1..Len(batch) : batch[j].id = id}}

\* C3: monotonic merge.  A merge_claims call lowers no active claim's
\* confidence and removes no support id; and for an incoming id that was
\* active before the call, every active claim of that id has afterwards the
\* union of its support ids and the incoming ones, and the maximum of its
\* confidence and the incoming ones.
C3_MonotonicMerge ==
    [][(call'.op = "merge_claims" /\ ops' = ops + 1) =>
        LET batch  == call'.claims
            before == TurnOf(memory, call'.session_id, call'.turn_id).claims_active
            after  == TurnOf(memory', call'.session_id, call'.turn_id).claims_active
        IN /\ SubSeq(after, 1, Len(before)) = before
           /\ \A r \in Range(before) :
                 /\ heap'[r].confidence >= heap[r].confidence
                 /\ heap[r].support_ids \subseteq heap'[r].support_ids
                 /\ (\E j \in 1..Len(batch) : batch[j].id = heap[r].id) =>
                       /\ heap'[r].support_ids =
                             heap[r].support_ids \cup IncomingSupport(batch, heap[r].id)
                       /\ \A c \in IncomingConfidence(batch, heap[r].id) :
                             heap'[r].confidence >= c
                       /\ heap'[r].confidence \in
                             {heap[r].confidence} \cup IncomingConfidence(batch, heap[r].id)
    ]_vars

\* C4: a claim id retracted by apply_claim_updates is absent from get_claims
\* called right after it.  The claim is read in its favour: the retraction is
\* the last update of the call that names the id, so that no later update of
\* the same list has given the claim a confidence again.
C4_RetractedAbsent ==
    (call.op = "apply_claim_updates" /\ ~call.raised) =>
        \A k \in 1..Len(call.updates) :
           (/\ call.updates[k].action = "retracted"
            /\ \A m \in (k + 1)..Len(call.updates) :
                  call.updates[m].claim_id # call.updates[k].claim_id) =>
              \A d \in Range(get_claims(memory, heap, call.session_id, call.turn_id)) :
                 d.id # call.updates[k].claim_id

-----------------------------------------------------------------------------
(* Claims about run_turn *)

\* the turn record run_turn works on
RunTurnData == TurnOf(memory, frame.session_id, frame.turn_id)

FailureMessages ==
    {FailureMessage(kind) :
        kind \in {"error", "unparsable", "empty", "wrong_shape", "key_error"}}

\* C5: per-step deadlock breaker.  On the loop iteration in which the count
\* of iterations spent on the current step passes from at most 5 to more than
\* 5, the step is FINISHED at the end of that iteration, neither the
\* Evaluator nor the Decider is called in it, and the loop goes on with the
\* first unfinished step of the plan as current step, or is left when every
\* step is finished.
C5_DeadlockBreaker ==
    [][(/\ pc = "loop"
        /\ frame'.loops = frame.loops + 1
        /\ frame'.step # None
        /\ Get(frame.step_loop_count, frame'.step[1], 0) <= 5
        /\ Get(frame'.step_loop_count, frame'.step[1], 0) > 5) =>
        LET id   == frame'.step[1]
            plan == TurnOf(memory', frame.session_id, frame.turn_id).plan_list
            open == {i \in 1..Len(plan) : plan[i].status # "FINISHED"}
        IN /\ \E i \in 1..Len(plan) :
                 /\ plan[i].step_id = id
                 /\ plan[i].status = "FINISHED"
                 /\ \A j \in 1..(i - 1) : plan[j].step_id # id
           /\ frame'.evaluator_calls = frame.evaluator_calls
           /\ frame'.decider_calls = frame.decider_calls
           /\ IF open = {}
              THEN pc' = "output"
              ELSE /\ pc' = "loop"
                   /\ \E i \in open :
                         /\ \A j \in open : i <= j
                         /\ TurnOf(memory', frame.session_id, frame.turn_id)
                               .current_step_id = Some(plan[i].step_id)
    ]_vars

\* the sixth iteration on step s1 has finished it after five evaluations and
\* made s2 the current step
C5_Witness ==
    /\ pc = "loop"
    /\ frame.step = Some("s1")
    /\ Get(frame.step_loop_count, "s1", 0) = 6
    /\ frame.loops = 6
    /\ frame.evaluator_calls = 5
    /\ RunTurnData.plan_list[1].status = "FINISHED"
    /\ RunTurnData.current_step_id = Some("s2")

\* C6: with max_loops = N the loop body is entered at most N times (loops is
\* incremented by the first statement of the body), and the main loop calls
\* the Evaluator at most N times and the Decider at most N times.
C6_LoopBound ==
    /\ frame.loops <= frame.max_loops
    /\ frame.evaluator_calls <= frame.max_loops
    /\ frame.decider_calls <= frame.max_loops

\* a turn has returned after max_loops >= 2 iterations, each of which called
\* the Evaluator and the Decider
C6_Witness ==
    /\ pc = "returned"
    /\ frame.max_loops >= 2
    /\ frame.loops = frame.max_loops
    /\ frame.evaluator_calls = frame.max_loops
    /\ frame.decider_calls = frame.max_loops

\* C7: failure semantics.  The step in which something raises inside run_turn
\* ends the call with a returned failure string, and the ledger (turn record,
\* plan, evidence and dedup index, claims, step statuses, last evaluation,
\* action log) is after it what it was at the failure point.
C7_FailureSemantics ==
    [][(frame'.fault # None /\ frame.fault = None) =>
        /\ pc' = "returned"
        /\ frame'.result # None
        /\ frame'.result[1] \in FailureMessages
        /\ memory' = memory
        /\ heap' = heap
    ]_vars

\* the synthesizer has raised after evidence was admitted and logged and an
\* evaluation stored, and all of it is in the ledger of the returned turn
C7_Witness ==
    /\ pc = "returned"
    /\ frame.fault # None
    /\ frame.fault[1].by = "synthesizer"
    /\ frame.result[1] \in FailureMessages
    /\ RunTurnData.evidences_active # <<>>
    /\ RunTurnData.claims_active # <<>>
    /\ RunTurnData.plan_list # <<>>
    /\ RunTurnData.last_evaluate # None
    /\ DOMAIN memory.evidence_index # {}
    /\ Get(memory.action_logs, <<frame.session_id, frame.turn_id>>, <<>>) # <<>>
    /\ memory.plan_data[<<frame.session_id, frame.turn_id, frame.plan_id>>]
          .plan_patches # <<>>

\* C8: malformed output (unparsable, or of the wrong shape) of the planner,
\* the evaluator, the decider, a query generator or the synthesizer never
\* makes run_turn end with the failure message.
C8_MalformedNeverPropagated ==
    frame.fault # None =>
       ~(/\ frame.fault[1].by \in {"planner", "evaluator", "decider", "rag_query",
                                   "web_query", "synthesizer"}
         /\ frame.fault[1].kind \in {"unparsable", "wrong_shape"})

\* C9: when the adjudication reply is unparsable the pipeline goes on with
\* one "upheld" verdict at unchanged confidence for every input claim and a
\* summary with groups_resolved = 0; the turn does not fail, no active claim
\* changes confidence and none is removed.
C9_AdjudicationFallback ==
    frame.adjudication = "unparsable" =>
       /\ frame.fault = None
       /\ frame.resolution # None
       /\ frame.resolution[1].resolution_summary.groups_resolved = 0
       /\ frame.resolution[1].updated_claims =
             [i \in 1..Len(frame.claims_active) |->
                 Update(frame.claims_active[i].id, "upheld",
                        Some(frame.claims_active[i].confidence), None, None)]
       /\ get_claims(memory, heap, frame.session_id, frame.turn_id) =
             frame.claims_active

-----------------------------------------------------------------------------
(* Claims about inheritance, the archive and the ledger's invariants *)

\* the turns begin_turn inherits from: the (up to) two turns before the newest
PriorTurns(turns) == {i \in 1..(Len(turns) - 1) : i >= Len(turns) - 2}

\* e is the first item of evs whose id is in the claim's support_ids
IsFirstSupport(evs, claim, e) ==
    \E j \in 1..Len(evs) :
       /\ evs[j] = e
       /\ e.id \in claim.support_ids
       /\ \A m \in 1..(j - 1) : evs[m].id \notin claim.support_ids

\* C11: right after begin_turn every item of the new turn's active evidence
\* is, for some inherited claim and some prior turn inherited from, the first
\* item of that turn's active evidence whose id is in the claim's support_ids
\* (an inherited claim pulls along at most that one item).
C11_OneEvidencePerClaim ==
    call.op = "begin_turn" =>
        LET turns == memory.turn_data[call.session_id]
            new   == turns[Len(turns)]
        IN \A k \in 1..Len(new.evidences_active) :
              \E i \in PriorTurns(turns), r \in Range(new.claims_active) :
                 IsFirstSupport(turns[i].evidences_active, heap[r],
                                new.evidences_active[k])

\* get_session_archive: the claim texts in the archive of a session, none
\* when the session has no archive
ArchiveTexts(mem, sid) ==
    Tail(Get(mem.session_archives, sid, <<"Key findings">>))

\* C12: right after rollup_to_session_archive(session, turn) the texts in the
\* session archive are the texts of that turn's claims with confidence >= 0.7
\* and (salience or 0.5) >= 0.5, at most five of them, and nothing else:
\* nothing an earlier turn's roll-up wrote is still there.
C12_ArchiveReplaced ==
    call.op = "rollup_to_session_archive" =>
        LET texts == ArchiveTexts(memory, call.session_id)
            turn  == TurnOf(memory, call.session_id, call.turn_id)
        IN /\ Len(texts) <= 5
           /\ \A i \in 1..Len(texts) :
                 \E r \in Range(turn.claims_active) :
                    /\ heap[r].text = texts[i]
                    /\ heap[r].confidence >= 70
                    /\ OrElse(heap[r].salience, 50) >= 50

\* C18: no turn's active evidence holds two entries with the same fingerprint
C18_UniqueFingerprints ==
    \A s \in Sessions : \A t \in 1..Len(memory.turn_data[s]) :
       LET evs == memory.turn_data[s][t].evidences_active
       IN \A i, j \in 1..Len(evs) :
             generate_fingerprint(evs[i].text, evs[i].source.url) =
                generate_fingerprint(evs[j].text, evs[j].source.url) => i = j

\* C20: no turn's active claims hold two entries with the same claim id
C20_OneClaimPerId ==
    \A s \in Sessions : \A t \in 1..Len(memory.turn_data[s]) :
       LET active == memory.turn_data[s][t].claims_active
       IN \A i, j \in 1..Len(active) :
             heap[active[i]].id = heap[active[j]].id => i = j

\* C17: a step that is FINISHED stays FINISHED: no step of the ledger API
\* takes a FINISHED step of a turn's plan back to NOT_START or RUNNING.
C17_StatusForwardOnly ==
    [][\A s \in Sessions : \A t \in 1..Len(memory.turn_data[s]) :
          LET plan  == memory.turn_data[s][t].plan_list
              plan2 == memory'.turn_data[s][t].plan_list
          IN \A i \in 1..Len(plan) :
                (/\ plan[i].status = "FINISHED"
                 /\ i <= Len(plan2)
                 /\ plan2[i].step_id = plan[i].step_id) =>
                   plan2[i].status = "FINISHED"
    ]_vars

-----------------------------------------------------------------------------
(* Claims about the decision, the conflict branch and the queries *)

\* the status of the step run_turn is working on
StepStatus(mem, f) ==
    LET plan == TurnOf(mem, f.session_id, f.turn_id).plan_list
    IN plan[CHOOSE i \in 1..Len(plan) :
               /\ plan[i].step_id = f.step[1]
               /\ \A j \in 1..(i - 1) : plan[j].step_id # f.step[1]].status

\* C13: forced FINISH.  When the evaluation is passed and has no issue that
\* is both blocking and of high severity, the decision is FINISH whatever
\* else the evaluation holds, the Decider's model is not called (so that no
\* reply of it, not even a failure, matters), and the step is FINISHED.
C13_ForcedFinish ==
    [][(/\ pc = "decide"
        /\ frame.evaluate_result[1].passed
        /\ ~\E i \in 1..Len(frame.evaluate_result[1].issues) :
              /\ frame.evaluate_result[1].issues[i].blocking
              /\ frame.evaluate_result[1].issues[i].severity = "high") =>
        /\ frame'.decision = Some("FINISH")
        /\ frame'.decider_llm_calls = frame.decider_llm_calls
        /\ frame'.fault = None
        /\ StepStatus(memory', frame') = "FINISHED"
    ]_vars

\* FINISH was decided on a passed evaluation that holds a blocking conflict
\* of medium severity, and the Decider's model was never called
C13_Witness ==
    /\ frame.decision = Some("FINISH")
    /\ frame.evaluate_result # None
    /\ frame.evaluate_result[1].passed
    /\ \E i \in 1..Len(frame.evaluate_result[1].issues) :
          /\ frame.evaluate_result[1].issues[i].blocking
          /\ frame.evaluate_result[1].issues[i].type = "conflict"
    /\ frame.decider_calls = 1
    /\ frame.decider_llm_calls = 0
    /\ frame.fault = None

\* C14: the fallback decision is FINISH if the evaluation is passed and no
\* issue is blocking; otherwise RESOLVE_CONFLICT if some issue is a blocking
\* conflict of high severity; otherwise WEB_SEARCH if some freshness issue is
\* blocking; otherwise RAG.  {passed, no issue} gives FINISH, {not passed, one
\* high blocking conflict} gives RESOLVE_CONFLICT, and the action is always one
\* of the four valid actions.
C14_FallbackDecision ==
    pc = "decided" =>
        LET e == frame.evaluate_result[1]
            d == frame.decision[1]
            Some_(P(_)) == \E i \in 1..Len(e.issues) : P(e.issues[i])
        IN /\ d \in {"RAG", "WEB_SEARCH", "RESOLVE_CONFLICT", "FINISH"}
           /\ d = IF e.passed /\ ~Some_(LAMBDA i : i.blocking) THEN "FINISH"
                  ELSE IF Some_(LAMBDA i : /\ i.type = "conflict"
                                           /\ i.severity = "high"
                                           /\ i.blocking)
                  THEN "RESOLVE_CONFLICT"
                  ELSE IF Some_(LAMBDA i : i.type = "freshness" /\ i.blocking)
                  THEN "WEB_SEARCH"
                  ELSE "RAG"
           /\ (e.passed /\ e.issues = <<>>) => d = "FINISH"
           /\ (/\ ~e.passed
               /\ Len(e.issues) = 1
               /\ e.issues[1].type = "conflict"
               /\ e.issues[1].severity = "high"
               /\ e.issues[1].blocking) => d = "RESOLVE_CONFLICT"

\* WEB_SEARCH was decided on a passed evaluation whose first issue is a
\* blocking conflict of medium severity and whose second is a blocking
\* freshness issue
C14_Witness ==
    /\ pc = "decided"
    /\ frame.decision = Some("WEB_SEARCH")
    /\ frame.evaluate_result[1].passed
    /\ Len(frame.evaluate_result[1].issues) = 2
    /\ frame.evaluate_result[1].issues[1].type = "conflict"
    /\ frame.evaluate_result[1].issues[1].severity = "med"
    /\ frame.evaluate_result[1].issues[1].blocking
    /\ frame.evaluate_result[1].issues[2].type = "freshness"
    /\ frame.evaluate_result[1].issues[2].blocking

\* C15: when the conflict pipeline has run and its branch ends without a
\* failure, the current step is FINISHED afterwards if the post-resolution
\* evaluation is passed and holds no issue that is a blocking conflict;
\* otherwise the step has the status it had before.
C15_ConflictBranchFinish ==
    [][(pc = "rc_post_evaluate" /\ frame'.fault = None) =>
        LET post == TurnOf(memory', frame.session_id, frame.turn_id).last_evaluate[1]
        IN StepStatus(memory', frame) =
              IF /\ post.passed
                 /\ ~\E i \in 1..Len(post.issues) :
                       post.issues[i].type = "conflict" /\ post.issues[i].blocking
              THEN "FINISHED"
              ELSE StepStatus(memory, frame)
    ]_vars

\* the conflict branch has ended on a passed post-resolution evaluation
\* without issues and the step, still the current one, is FINISHED
C15_Witness ==
    /\ pc = "loop"
    /\ frame.decision = Some("RESOLVE_CONFLICT")
    /\ frame.resolution # None
    /\ RunTurnData.last_evaluate # None
    /\ RunTurnData.last_evaluate[1].passed
    /\ RunTurnData.last_evaluate[1].issues = <<>>
    /\ StepStatus(memory, frame) = "FINISHED"
    /\ RunTurnData.current_step_id = frame.step

\* C16: the query given to the Output Generator, and the query in the turn
\* record, are the user_query the caller passed, also when a context prefix
\* was put before the query the Planner is given.
C16_OriginalQueryForOutput ==
    /\ frame.output_query # None => frame.output_query[1] = frame.asked
    /\ pc # "idle" => RunTurnData.user_query = frame.asked

\* a turn has returned an answer: the planner was given the prefixed query,
\* the output generator the caller's
C16_Witness ==
    /\ pc = "returned"
    /\ frame.fault = None
    /\ frame.user_query # frame.asked
    /\ frame.output_query = Some(frame.asked)
    /\ RunTurnData.plan_list # <<>>

\* C19: in every ledger state, the confidence of every active claim lies
\* between 0 and 1 (0 and 100 in the percents of the model).
C19_ConfidenceInRange ==
    \A session_id \in DOMAIN memory.turn_data :
       \A i \in 1..Len(memory.turn_data[session_id]) :
          \A k \in 1..Len(memory.turn_data[session_id][i].claims_active) :
             LET claim == heap[memory.turn_data[session_id][i].claims_active[k]]
             IN 0 <= claim.confidence /\ claim.confidence <= 100

-----------------------------------------------------------------------------
(* Claims about the order of a turn, its end and its configuration *)

\* every step of the turn's plan is FINISHED
AllStepsFinished(mem, f) ==
    \A i \in 1..Len(TurnOf(mem, f.session_id, f.turn_id).plan_list) :
       TurnOf(mem, f.session_id, f.turn_id).plan_list[i].status = "FINISHED"

\* the places of run_turn inside the RAG / WEB_SEARCH branch and inside the
\* conflict branch
SearchBranch == {"query", "retrieve", "synthesize"}

ConflictBranch == {"rc_plan", "rc_search", "rc_adjudicate", "rc_post_evaluate"}

\* C21: the order of a turn.  In a run_turn that does not fail the Planner is
\* called once and before every other collaborator; an iteration of the loop
\* that is not a forced finish calls the Evaluator, stores the snapshot with
\* set_evaluate, calls the Decider and then does exactly one of RAG,
\* WEB_SEARCH, RESOLVE_CONFLICT and finishing the step; the Output Generator
\* is called once, only when the loop has ended (every step FINISHED or
\* max_loops used up), and the roll-up into the session archive follows it.
C21_TurnOrder ==
    [][frame'.fault = None =>
        /\ pc = "idle" => pc' = "plan" /\ frame'.planner_calls = 0
        /\ pc = "plan" =>
              /\ pc' = "loop"
              /\ frame'.planner_calls = 1
              /\ frame'.evaluator_calls = 0 /\ frame'.decider_calls = 0
              /\ frame'.output_calls = 0
        /\ pc # "plan" => frame'.planner_calls = frame.planner_calls
        /\ pc = "loop" =>
              \/ pc' = "evaluate" /\ LoopGuard(frame.loops, frame.max_loops)
                 /\ memory' = memory
              \/ /\ pc' \in {"loop", "output"}
                 /\ LoopGuard(frame.loops, frame.max_loops)
                 /\ frame'.step # None
                 /\ ExceedsStepLimit(frame'.step_loop_count[frame'.step[1]])
                 /\ StepStatus(memory', frame') = "FINISHED"
              \/ pc' = "output" /\ ~LoopGuard(frame.loops, frame.max_loops)
        /\ pc' = "evaluate" => pc = "loop"
        /\ pc = "evaluate" =>
              /\ pc' = "decide"
              /\ frame'.evaluator_calls = frame.evaluator_calls + 1
              /\ frame'.evaluate_result # None
              /\ TurnOf(memory', frame.session_id, frame.turn_id).last_evaluate
                    = frame'.evaluate_result
        /\ pc' = "decide" => pc = "evaluate"
        /\ pc = "decide" =>
              /\ frame'.decider_calls = frame.decider_calls + 1
              /\ frame'.decision # None
              /\ \/ /\ frame'.decision[1] = "FINISH"
                    /\ StepStatus(memory', frame') = "FINISHED"
                    /\ pc' \in {"loop", "output"}
                 \/ /\ frame'.decision[1] = "RAG"
                    /\ pc' = "query" /\ frame'.source = "RAG" /\ memory' = memory
                 \/ /\ frame'.decision[1] = "WEB_SEARCH"
                    /\ pc' = "query" /\ frame'.source = "WEB" /\ memory' = memory
                 \/ /\ frame'.decision[1] = "RESOLVE_CONFLICT"
                    /\ pc' \in {"rc_plan", "loop"} /\ memory' = memory
        /\ pc \in SearchBranch => pc' \in SearchBranch \cup {"loop"}
        /\ pc \in ConflictBranch => pc' \in ConflictBranch \cup {"loop"}
        /\ pc' \in SearchBranch \cup ConflictBranch =>
              pc \in {"decide"} \cup SearchBranch \cup ConflictBranch
        /\ pc' = "output" =>
              /\ pc \in {"loop", "decide"}
              /\ frame'.output_calls = 0
              /\ \/ AllStepsFinished(memory', frame')
                 \/ ~LoopGuard(frame.loops, frame.max_loops)
        /\ pc = "output" =>
              /\ pc' = "returned"
              /\ frame'.output_calls = 1
              /\ memory' = rollup_to_session_archive(memory, heap, frame.session_id,
                                                     frame.turn_id)
        /\ pc # "returned"]_vars

\* a turn has returned its answer after two iterations of the loop or more,
\* one of them a search, with a plan of two steps
C21_Witness ==
    /\ pc = "returned"
    /\ frame.fault = None
    /\ frame.loops >= 3
    /\ frame.evaluator_calls >= 2
    /\ frame.decider_calls >= 2
    /\ frame.planner_calls = 1 /\ frame.output_calls = 1
    /\ Len(RunTurnData.plan_list) = 2
    /\ Get(memory.action_logs, <<frame.session_id, frame.turn_id>>, <<>>) # <<>>
    /\ AllStepsFinished(memory, frame)

\* C22: every run_turn call ends and returns an answer or the failure
\* string, each call of a collaborator returning or raising.
C22_Terminates == (pc # "idle") ~> (pc = "returned" /\ frame.result # None)

\* a turn that used up max_loops with a step left unfinished has returned
\* its answer
C22_Witness ==
    /\ pc = "returned"
    /\ frame.fault = None
    /\ frame.result # None
    /\ frame.max_loops = MaxLoopsLean
    /\ frame.loops = frame.max_loops
    /\ ~AllStepsFinished(memory, frame)

\* C23: with monitoring enabled, the thread that runs run_turn never waits
\* for the monitoring server: it is never inside a request to the server.
C23_NeverWaitsForMonitor == pc # "monitor_get"

\* C24: a run_turn called without a configuration, on a session that has
\* one stored, works with the stored configuration and leaves it as it is.
C24_StoredConfigKept ==
    (pc # "idle" /\ frame.config_arg = None /\ frame.config_before # None) =>
        /\ memory.session_configs[frame.session_id] = frame.config_before[1]
        /\ frame.config = frame.config_before

-----------------------------------------------------------------------------
(* Claims about the fields merge_claims and apply_claim_updates write *)

\* the places of a turn's active list that hold a claim of an id
PlacesOf(hp, active, id) == {i \in 1..Len(active) : hp[active[i]].id = id}

\* merge_claims, line 126, and apply_claim_updates, line 207: the active
\* claim an id stands for is the last one of the list that has the id
ClaimOfId(hp, active, id) ==
    active[CHOOSE i \in PlacesOf(hp, active, id) :
              \A j \in PlacesOf(hp, active, id) : j <= i]

\* what merge_claims does with one incoming claim, the salience of a merged
\* claim left aside: a claim of an unseen id is appended as given; for an
\* active id the stance of its claim is overwritten iff the incoming stance
\* is present, the aspects become the union, the text is unchanged
MergedAsStated(hp, active, hp_after, after, new_claim) ==
    LET places == PlacesOf(hp, active, new_claim.id)
    IN /\ places = {} =>
             /\ Len(after) = Len(active) + 1
             /\ SubSeq(after, 1, Len(active)) = active
             /\ hp_after[after[Len(after)]] = new_claim
       /\ places # {} =>
             /\ after = active
             /\ LET old == hp[ClaimOfId(hp, active, new_claim.id)]
                    now == hp_after[ClaimOfId(hp, active, new_claim.id)]
                IN /\ now.stance = IF new_claim.stance # None
                                   THEN new_claim.stance ELSE old.stance
                   /\ now.aspects = old.aspects \cup new_claim.aspects
                   /\ now.text = old.text

\* C25 as stated: merge_claims, field by field.  For an incoming claim whose
\* id is active, the stance of the active claim is overwritten iff the
\* incoming stance is present, the salience becomes max(old or 0, new or 0),
\* the aspects become the union and the text is unchanged; an incoming claim
\* of an unseen id is appended with every field as given.
C25_MergeFields ==
    [][call'.op = "merge_claims" /\ Len(call'.claims) = 1 =>
        LET new_claim == call'.claims[1]
            active == TurnOf(memory, call'.session_id, call'.turn_id).claims_active
            after  == TurnOf(memory', call'.session_id, call'.turn_id).claims_active
        IN /\ MergedAsStated(heap, active, heap', after, new_claim)
           /\ PlacesOf(heap, active, new_claim.id) # {} =>
                 heap'[ClaimOfId(heap, active, new_claim.id)].salience =
                    Some(Max(OrElse(heap[ClaimOfId(heap, active, new_claim.id)].salience, 0),
                             OrElse(new_claim.salience, 0)))]_vars

\* C25 amended: as stated, except that the salience is left as it is (an
\* unset salience stays unset) when neither the old nor the incoming
\* salience is a non-zero number.
C25_MergeFieldsAmended ==
    [][call'.op = "merge_claims" /\ Len(call'.claims) = 1 =>
        LET new_claim == call'.claims[1]
            active == TurnOf(memory, call'.session_id, call'.turn_id).claims_active
            after  == TurnOf(memory', call'.session_id, call'.turn_id).claims_active
        IN /\ MergedAsStated(heap, active, heap', after, new_claim)
           /\ PlacesOf(heap, active, new_claim.id) # {} =>
                 LET old == heap[ClaimOfId(heap, active, new_claim.id)]
                 IN heap'[ClaimOfId(heap, active, new_claim.id)].salience =
                       IF ~TruthyNum(old.salience) /\ ~TruthyNum(new_claim.salience)
                       THEN old.salience
                       ELSE Some(Max(OrElse(old.salience, 0),
                                     OrElse(new_claim.salience, 0)))]_vars

\* a claim was merged into an active claim of its id: the stance was
\* overwritten, the salience raised, the aspects united, the text kept
C25_Witness ==
    /\ call.op = "merge_claims"
    /\ Len(call.claims) = 1
    /\ call.claims[1].text = "x2"
    /\ call.claims[1].stance = Some("con")
    /\ \E i \in 1..Len(TurnOf(memory, call.session_id, call.turn_id).claims_active) :
          LET claim == heap[TurnOf(memory, call.session_id, call.turn_id).claims_active[i]]
          IN /\ claim.text = "x1"
             /\ claim.stance = Some("con")
             /\ claim.salience = Some(90)
             /\ claim.aspects = {"a1", "a2"}

\* C26: apply_claim_updates, verdict by verdict.  The call completes; an
\* update that names an active id sets the confidence of its claim (upheld),
\* replaces text and confidence and adds the update's evidence ids to the
\* support (revised), or sets the confidence to 0 (retracted); an update that
\* names no active id changes no claim; afterwards the active list is the old
\* one without the claims of confidence 0.
C26_VerdictSemantics ==
    [][call'.op = "apply_claim_updates" /\ Len(call'.updates) = 1 =>
        LET update == call'.updates[1]
            active == TurnOf(memory, call'.session_id, call'.turn_id).claims_active
            after  == TurnOf(memory', call'.session_id, call'.turn_id).claims_active
        IN /\ ~call'.raised
           /\ after = SelectSeq(active, LAMBDA r : heap'[r].confidence # 0)
           /\ IF PlacesOf(heap, active, update.claim_id) = {}
              THEN heap' = heap
              ELSE LET r == ClaimOfId(heap, active, update.claim_id)
                   IN /\ \A q \in DOMAIN heap : q # r => heap'[q] = heap[q]
                      /\ update.action = "upheld" =>
                            heap'[r] = [heap[r] EXCEPT
                                          !.confidence = update.new_confidence[1]]
                      /\ update.action = "revised" =>
                            /\ heap'[r].confidence = update.new_confidence[1]
                            /\ update.new_text # None =>
                                  heap'[r].text = update.new_text[1]
                            /\ heap'[r].support_ids =
                                  heap[r].support_ids
                                  \cup (IF update.evidence_ids # None
                                        THEN update.evidence_ids[1] ELSE {})
                      /\ update.action = "retracted" =>
                            heap'[r] = [heap[r] EXCEPT !.confidence = 0]]_vars

-----------------------------------------------------------------------------
(* Claims about the current step and the conflict branch *)

\* C27: when an iteration of the loop goes on to the evaluation, the current
\* step is not FINISHED: run_turn never evaluates, decides on or acts for a
\* step that is marked FINISHED.
C27_CurrentStepUnfinished ==
    pc \in {"evaluate", "decide"} \cup SearchBranch \cup ConflictBranch =>
        StepStatus(memory, frame) # "FINISHED"

\* what a turn records: its fields, with the claims behind the references
\* of its active list
TurnContent(hp, turn) ==
    [turn EXCEPT !.claims_active = [i \in 1..Len(turn.claims_active) |->
                                       hp[turn.claims_active[i]]]]

\* C28: a ledger operation for the current turn (merge_claims,
\* apply_claim_updates, add_evidences) changes nothing of what is recorded
\* for another turn; a claim of an earlier turn keeps its fields after a
\* later turn has inherited it.
C28_CrossTurnIsolation ==
    [][call'.op \in {"merge_claims", "apply_claim_updates", "add_evidences"} =>
        \A session_id \in Sessions :
           \A i \in 1..Len(memory.turn_data[session_id]) :
              memory.turn_data[session_id][i].turn_id # call'.turn_id =>
                 TurnContent(heap', memory'.turn_data[session_id][i])
                    = TurnContent(heap, memory.turn_data[session_id][i])]_vars

\* C29: the empty conflict.  When the decision is RESOLVE_CONFLICT and the
\* evaluation has no issue of type conflict that carries a non-empty list of
\* claim ids, the conflict pipeline is not called, the branch leaves the
\* ledger as it is, and the loop goes on with its next iteration.
C29_EmptyConflictNoOp ==
    [][(/\ pc = "decide"
        /\ frame'.fault = None
        /\ frame'.decision = Some("RESOLVE_CONFLICT")
        /\ \A i \in 1..Len(frame.evaluate_result[1].issues) :
              LET issue == frame.evaluate_result[1].issues[i]
              IN ~(issue.type = "conflict" /\ issue.claims # None
                   /\ issue.claims[1] # <<>>))
       => /\ pc' = "loop"
          /\ memory' = memory
          /\ heap' = heap]_vars

\* the decision was RESOLVE_CONFLICT on an evaluation whose only issue is a
\* conflict that names no claims, and run_turn is back at the head of the loop
C29_Witness ==
    /\ pc = "loop"
    /\ frame.fault = None
    /\ frame.decision = Some("RESOLVE_CONFLICT")
    /\ frame.evaluate_result # None
    /\ frame.evaluate_result[1].issues = <<UnnamedConflict>>
    /\ frame.loops = 1


-----------------------------------------------------------------------------
(* Claims about the order in which the steps of a plan are worked *)

\* the places of a plan whose step is not FINISHED
Unfinished(steps) == {i \in 1..Len(steps) : steps[i].status # "FINISHED"}

\* the place in the plan of the step get_current_step finds, 0 without one
CurrentIndex(mem, session_id, turn_id) ==
    LET turn == TurnOf(mem, session_id, turn_id)
        hits == {i \in 1..Len(turn.plan_list) :
                    /\ turn.current_step_id # None
                    /\ turn.plan_list[i].step_id = turn.current_step_id[1]}
    IN IF hits = {} THEN 0
       ELSE CHOOSE i \in hits : \A j \in hits : i <= j

-----------------------------------------------------------------------------
(* Claims about the loops a plan needs *)

\* no two steps of the plan have the same step_id
DistinctStepIds(steps) ==
    \A i, j \in 1..Len(steps) : steps[i].step_id = steps[j].step_id => i = j

\* C31: enough loops finish the plan.  In a turn whose plan has distinct step
\* ids every step takes at most 6 iterations of the main loop (5 that reach
\* the evaluation and the forced finish); when nothing has raised and
\* max_loops is at least 6 times the number of steps, the loop is left with
\* no unfinished step remaining, every step of the plan being FINISHED when
\* the Output Generator is called.
C31_EnoughLoopsFinishAll ==
    (pc \notin {"idle", "plan"} /\ DistinctStepIds(RunTurnData.plan_list)) =>
       /\ \A id \in DOMAIN frame.step_loop_count :
             frame.step_loop_count[id] <= StepLoopLimit + 1
       /\ (pc = "output" /\ frame.fault = None
            /\ frame.max_loops >= (StepLoopLimit + 1) * Len(RunTurnData.plan_list))
              => /\ AllStepsFinished(memory, frame)
                 /\ get_next_unfinished_step(memory, frame.session_id,
                                             frame.turn_id) = None

\* the loop of a plan of two steps has been left after exactly twelve
\* iterations, each step having used six
C31_Witness ==
    /\ pc = "output"
    /\ frame.fault = None
    /\ Len(RunTurnData.plan_list) = 2
    /\ frame.max_loops = 2 * (StepLoopLimit + 1)
    /\ frame.loops = frame.max_loops
    /\ \A i \in 1..2 :
          Get(frame.step_loop_count, RunTurnData.plan_list[i].step_id, 0)
             = StepLoopLimit + 1
    /\ AllStepsFinished(memory, frame)

-----------------------------------------------------------------------------
(* Claims about the RAG / WEB_SEARCH branch *)

\* the action log of a turn
ActionLogs(mem, f) == Get(mem.action_logs, <<f.session_id, f.turn_id>>, <<>>)

\* s is the beginning of t
IsPrefix(s, t) == Len(s) <= Len(t) /\ SubSeq(t, 1, Len(s)) = s

\* the ids of the items a step has added to the turn's active evidence
AdmittedIds(mem, mem2, f) ==
    LET before == get_evidences(mem, f.session_id, f.turn_id)
        after  == get_evidences(mem2, f.session_id, f.turn_id)
    IN [i \in 1..(Len(after) - Len(before)) |-> after[Len(before) + i].id]

\* C32: the search branch.  A RAG or WEB_SEARCH decision is followed by the
\* query generation, then the retrieval with the commit of its items by
\* add_evidences and the recording of exactly one action log entry, of the
\* decided source, whose out_evidence_ids are the ids add_evidences admitted,
\* then the Synthesizer's call with all active evidence and all active claims
\* of the turn, then merge_claims.  No other step records an action log
\* entry, and the action log of every turn only grows.
C32_SearchBranchOrder ==
    [][/\ \A key \in DOMAIN memory.action_logs :
             /\ key \in DOMAIN memory'.action_logs
             /\ IsPrefix(memory.action_logs[key], memory'.action_logs[key])
       /\ (pc # "idle" /\ frame'.fault = None) =>
          /\ (pc = "decide" /\ frame'.decision[1] \in {"RAG", "WEB_SEARCH"}) =>
                /\ pc' = "query"
                /\ frame'.source = (IF frame'.decision[1] = "RAG" THEN "RAG"
                                     ELSE "WEB")
          /\ pc' = "query" => pc = "decide"
          /\ pc = "query" => pc' = "retrieve" /\ memory' = memory
          /\ pc' = "retrieve" => pc = "query"
          /\ pc = "retrieve" =>
                /\ pc' = "synthesize"
                /\ IsPrefix(get_evidences(memory, frame.session_id, frame.turn_id),
                            get_evidences(memory', frame.session_id,
                                          frame.turn_id))
                /\ \E log \in {ActionLogs(memory', frame)[
                                    Len(ActionLogs(memory', frame))]} :
                      /\ ActionLogs(memory', frame)
                            = Append(ActionLogs(memory, frame), log)
                      /\ log.type = frame.source
                      /\ log.query = frame.query[1]
                      /\ log.out_evidence_ids = AdmittedIds(memory, memory', frame)
                /\ get_claims(memory', heap', frame.session_id, frame.turn_id)
                      = get_claims(memory, heap, frame.session_id, frame.turn_id)
          /\ pc' = "synthesize" => pc = "retrieve"
          /\ pc = "synthesize" =>
                /\ pc' = "loop"
                /\ frame'.working_set # None
                /\ frame'.working_set[1].evidences
                      = get_evidences(memory, frame.session_id, frame.turn_id)
                /\ frame'.working_set[1].previous_claims
                      = get_claims(memory, heap, frame.session_id, frame.turn_id)
                /\ \E new_claims \in {synthesize_claims(reply.val[1],
                          get_evidences(memory, frame.session_id, frame.turn_id),
                          memory.session_configs[frame.session_id].stance_enabled) :
                        reply \in {r \in SynthesizerReplies(frame.env) :
                                      ~generate_json_raises(r)}} :
                      /\ memory' = merge_claims(memory, heap, frame.session_id,
                                                frame.turn_id, frame.plan_id,
                                                new_claims).memory
                      /\ heap' = merge_claims(memory, heap, frame.session_id,
                                              frame.turn_id, frame.plan_id,
                                              new_claims).heap
          /\ pc # "retrieve" => ActionLogs(memory', frame') = ActionLogs(memory, frame)
      ]_vars

\* a retrieval whose only item was a duplicate has been recorded with an
\* empty out_evidence_ids
C32_Witness ==
    /\ pc = "synthesize"
    /\ frame.new_evidences # <<>>
    /\ Len(ActionLogs(memory, frame)) = 1
    /\ ActionLogs(memory, frame)[1].out_evidence_ids = <<>>

-----------------------------------------------------------------------------
(* Claims about the conflict pipeline's working copy *)

\* the id, text, confidence and support_ids of the claims of a list
ClaimView(claims) ==
    {[id |-> claims[i].id, text |-> claims[i].text,
      confidence |-> claims[i].confidence,
      support_ids |-> claims[i].support_ids] : i \in 1..Len(claims)}

\* C33: the claims the conflict pipeline gives to its post-evaluation (its
\* working copy with the verdicts applied) are the active claims of the
\* ledger once apply_claim_updates has committed the same verdicts: the same
\* ids with the same text, confidence and support_ids.
C33_WorkingCopyIsLedger ==
    [][(pc = "rc_post_evaluate" /\ pc' = "loop" /\ frame'.fault = None) =>
          ClaimView(frame.updated_claims_list)
             = ClaimView(get_claims(memory', heap', frame.session_id,
                                    frame.turn_id))]_vars

-----------------------------------------------------------------------------
(* Claims about the plan phase *)

\* C34: the plan phase always leaves a plan.  Whatever the Planner's model
\* answers, after the plan phase the turn's plan is not empty, the current
\* step is the first step of the plan and the main loop is entered; an answer
\* that gives no usable steps leaves the single fallback step as the plan.
\* (A call of the model that fails without an answer is left aside.)
C34_PlanNeverEmpty ==
    [][(pc = "plan" /\ (frame'.fault = None \/ frame'.fault[1].kind # "error")) =>
         LET turn == TurnOf(memory', frame.session_id, frame.turn_id)
         IN /\ pc' = "loop"
            /\ turn.plan_list # <<>>
            /\ turn.current_step_id = Some(turn.plan_list[1].step_id)
            /\ "planner" \in frame'.malformed => turn.plan_list = planner_fallback
      ]_vars

-----------------------------------------------------------------------------
(* Claims about the searches of the conflict pipeline *)

\* _generate_search_plan, lines 82-83: the number of queries per source the
\* search planner is asked not to exceed
QueriesPerSource == 2

\* C35: one call of the conflict pipeline runs at most 2 internal (RAG)
\* queries and at most 2 external (web) queries, however many queries the
\* search plan holds.
C35_AtMostTwoQueriesPerSource ==
    /\ frame.searches.RAG <= QueriesPerSource
    /\ frame.searches.WEB <= QueriesPerSource

-----------------------------------------------------------------------------
(* One session of the ledger with plan tracking on: a turn is begun, its    *)
(* plan is begun as run_turn begins it, and evidence, claims, evaluations   *)
(* and verdicts are filed under that plan.                                  *)

\* run_turn, line 59: the plan id of the turn (one id per turn)
PlanIdOf(tid) == "plan_" \o tid

\* run_turn, lines 124-128: the plan of the newest turn is stored, its first
\* step made current and plan tracking begun
BeginPlan(sid, steps) ==
    /\ memory.turn_data[sid] # <<>>
    /\ LET tid  == NewestTurn(memory, sid)
           mem1 == set_plan_list(memory, sid, tid, steps)
           mem2 == set_current_step(mem1, sid, tid, steps[1].step_id)
       IN /\ <<sid, tid, PlanIdOf(tid)>> \notin DOMAIN memory.plan_data
          /\ memory' = begin_plan(mem2, sid, tid, PlanIdOf(tid), <<>>, <<>>)
          /\ call' = [NoCall EXCEPT !.op = "begin_plan", !.session_id = sid,
                                    !.turn_id = tid]
    /\ UNCHANGED <<heap, ops, agentVars>>

\* add_evidences under the plan of the newest turn
FileEvidences(sid, evidences) ==
    /\ ops < MaxOps
    /\ memory.turn_data[sid] # <<>>
    /\ LET tid == NewestTurn(memory, sid)
           r   == add_evidences(memory, sid, tid, PlanIdOf(tid), evidences)
       IN /\ memory' = r.memory
          /\ call' = [NoCall EXCEPT !.op = "add_evidences", !.session_id = sid,
                                    !.turn_id = tid, !.evidences = evidences,
                                    !.new_ids = r.new_ids]
    /\ ops' = ops + 1
    /\ UNCHANGED <<heap, agentVars>>

\* merge_claims under the plan of the newest turn
FileClaims(sid, claims) ==
    /\ ops < MaxOps
    /\ memory.turn_data[sid] # <<>>
    /\ LET tid == NewestTurn(memory, sid)
           r   == merge_claims(memory, heap, sid, tid, PlanIdOf(tid), claims)
       IN /\ memory' = r.memory
          /\ heap' = r.heap
          /\ call' = [NoCall EXCEPT !.op = "merge_claims", !.session_id = sid,
                                    !.turn_id = tid, !.claims = claims]
    /\ ops' = ops + 1
    /\ UNCHANGED agentVars

\* set_evaluate under the plan of the newest turn
FileEvaluate(sid, snapshot) ==
    /\ ops < MaxOps
    /\ memory.turn_data[sid] # <<>>
    /\ LET tid == NewestTurn(memory, sid)
       IN /\ memory' = set_evaluate(memory, sid, tid, PlanIdOf(tid), snapshot)
          /\ call' = [NoCall EXCEPT !.op = "set_evaluate", !.session_id = sid,
                                    !.turn_id = tid]
    /\ ops' = ops + 1
    /\ UNCHANGED <<heap, agentVars>>

NextPatches ==
    \/ BeginTurn("s1")
    \/ BeginPlan("s1", planner_fallback)
    \/ \E b \in Batches(EvidenceInputs) : FileEvidences("s1", b)
    \/ \E c \in ClaimInputs : FileClaims("s1", <<c>>)
    \/ \E passed \in BOOLEAN :
          FileEvaluate("s1", EvaluateSnapshot(passed, Metrics(80), <<>>))
    \/ \E u \in VerdictInputs : ApplyClaimUpdates("s1", <<u>>)

SpecPatches == InitLedger /\ [][NextPatches]_vars

\* what a patch shows to a reader of the audit trail: the step, the evidence
\* ids, the fields of the claims it recorded, the evaluation snapshot
PatchContent(hp, entry) ==
    [step_id          |-> entry.step_id,
     add_evidence_ids |-> entry.patch.add_evidence_ids,
     merge_claims     |-> [i \in 1..Len(entry.patch.merge_claims) |->
                              IF entry.patch.merge_claims[i].ref # 0
                              THEN hp[entry.patch.merge_claims[i].ref]
                              ELSE entry.patch.merge_claims[i].val[1]],
     set_evaluate     |-> entry.patch.set_evaluate]

AuditTrail(mem, hp, key) ==
    [i \in 1..Len(mem.plan_data[key].plan_patches) |->
        PatchContent(hp, mem.plan_data[key].plan_patches[i])]

\* C36: plan patches are an append-only audit trail.  Across every ledger
\* operation each plan keeps the patches it had, in their order and with the
\* content they were filed with (evidence ids, the fields of the merged
\* claims, the evaluation snapshot); an operation can only append.
C36_PatchesAppendOnly ==
    [][\A key \in DOMAIN memory.plan_data :
          /\ key \in DOMAIN memory'.plan_data
          /\ IsPrefix(AuditTrail(memory, heap, key),
                      AuditTrail(memory', heap', key))]_vars

-----------------------------------------------------------------------------
(* Claims about citations *)

\* the evidence ids the active claims of a turn cite
CitedIds(mem, hp, session_id, turn_id) ==
    LET claims == get_claims(mem, hp, session_id, turn_id)
    IN UNION {claims[i].support_ids : i \in 1..Len(claims)}

\* C37: citation integrity.  While a turn runs, every evidence id cited by an
\* active claim of the turn is the id of an item of the turn's active
\* evidence, so the id-to-url map handed to the Output Generator has an entry
\* for it.
C37_CitationIntegrity ==
    pc \notin {"idle", "plan"} =>
        CitedIds(memory, heap, frame.session_id, frame.turn_id)
            \subseteq DOMAIN get_evidence_url_map(memory, frame.session_id,
                                                  frame.turn_id)

-----------------------------------------------------------------------------
(* MakeDecision.decide called on evaluation snapshots of up to MaxIssues    *)
(* issues, with every shape of answer the Decider's model can give.         *)

\* the parsed answers of the Decider's model: with or without an action, a
\* valid or an invalid one, with or without a rationale
DeciderResults ==
    [action    : {None, Some("RAG"), Some("FINISH"), Some("STOP")},
     rationale : {None, Some("r")}]

InitDecide ==
    /\ memory = MemoryFacade
    /\ heap = <<>>
    /\ call = NoCall
    /\ ops = 0
    /\ pc = "decide_call"
    /\ \E last_evaluate \in SnapshotInputs :
          frame = [NoFrame EXCEPT !.evaluate_result = Some(last_evaluate)]

\* MakeDecision.decide, lines 21-94: the passed-check, the call of the model,
\* the validation of its answer and the fallback
DecideCall(result) ==
    /\ pc = "decide_call"
    /\ LET last_evaluate == frame.evaluate_result[1]
       IN IF QuickFinish(last_evaluate)
          THEN frame' = [frame EXCEPT !.decision = Some("FINISH")]
          ELSE frame' = [frame EXCEPT
                   !.decider_llm_calls = @ + 1,
                   !.decision = Some(decide(result, last_evaluate)),
                   !.malformed = IF result.action = None \/ result.rationale = None
                                    \/ result.action[1] \notin valid_actions
                                 THEN @ \cup {"decider"} ELSE @]
    /\ pc' = "decide_done"
    /\ UNCHANGED <<memory, heap, call, ops>>

NextDecide == \E result \in DeciderResults : DecideCall(result)

SpecDecide == InitDecide /\ [][NextDecide]_vars

\* C38: the fallback of decide never finishes a step.  When the Decider's
\* answer lacks action or rationale or names an invalid action, the action
\* decide returns is not FINISH; and an evaluation for which
\* _fallback_decision gives FINISH is answered FINISH by the passed-check,
\* without the Decider's model being called.
C38_FallbackNeverFinishes ==
    pc = "decide_done" =>
        /\ "decider" \in frame.malformed => frame.decision # Some("FINISH")
        /\ fallback_decision(frame.evaluate_result[1]) = "FINISH" =>
              /\ frame.decider_llm_calls = 0
              /\ frame.decision = Some("FINISH")

\* a passed evaluation with a high blocking issue went to the Decider, whose
\* answer named no valid action, and the fallback decided
C38_Witness ==
    /\ pc = "decide_done"
    /\ frame.evaluate_result[1].passed
    /\ "decider" \in frame.malformed
    /\ frame.decision \in {Some("RESOLVE_CONFLICT"), Some("WEB_SEARCH"), Some("RAG")}
=============================================================================
